---- MODULE Spec2Model ----
(***************************************************************************)
(* State-machine model of minuit2-rs: the parameter container              *)
(* (MinuitParameter, MnUserTransformation, MnUserParameters) and the       *)
(* minimization engines (Migrad, Simplex, MnMinimize).                     *)
(*                                                                         *)
(* Indices are 0-based as in the source; TLA+ sequences are 1-based, so    *)
(* the element of external index e is parameters[e + 1].                   *)
(***************************************************************************)
EXTENDS Integers, Sequences, FiniteSets, TLC

VARIABLES
    parameters,   \* MnUserTransformation.parameters : Vec<MinuitParameter>
    int_of_ext,   \* MnUserTransformation.int_of_ext : Vec<usize>  (internal -> external)
    ext_of_int,   \* MnUserTransformation.ext_of_int : Vec<Option<usize>> (external -> internal)
    name_map,     \* MnUserParameters.name_map : HashMap<String, usize>
    last_call,    \* history: the last configuration call, [op, ext, panicked]
    name_clash,   \* history: some call passed a name then held by another parameter
    call,         \* the public minimize call: [api, strategy, max_fcn, tolerance_given, tolerance, up]
    pc,           \* position of the running minimize call
    eng,          \* the minimizer invocation in progress: [kind, trafo, strategy, maxfcn, tolerance]
    num_calls,    \* MnFcn.num_calls of the invocation in progress
    seed,         \* MinimumSeed of the invocation in progress: [valid, edm, nfcn, vec]
    mg,           \* locals of VariableMetricBuilder::minimum / iterate
    sx,           \* locals of SimplexBuilder::minimum
    result,       \* FunctionMinimum returned by the last finished invocation
    simplex_min,  \* MnMinimize::minimize: the Simplex result kept for the last step
    trace,        \* history: the invocations MnMinimize::minimize has made
    ret,          \* FunctionMinimum returned by the public call
    iters,        \* history: loop iterations begun by the invocation in progress,
                  \* None where the specification does not record them
    evals,        \* history: evaluations of the user function since the public
                  \* operation began, None where not recorded
    minos,        \* the MnMinos query in progress and the locals of its search
    cross,        \* the MnCross the query returned
    contour,      \* the MnContours::points call in progress and its pts
    scan,         \* the MnParameterScan and the scan in progress
    cov           \* the MnUserCovariance under test

containerVars == <<parameters, int_of_ext, ext_of_int, name_map>>

paramVars == <<parameters, int_of_ext, ext_of_int, name_map, last_call, name_clash>>

toolVars == <<contour, scan, cov>>

analysisVars == <<minos, cross, toolVars>>

engineVars == <<call, pc, eng, num_calls, seed, mg, sx, result, simplex_min, trace, ret,
                iters, evals, analysisVars>>

vars == <<parameters, int_of_ext, ext_of_int, name_map, last_call, name_clash,
          call, pc, eng, num_calls, seed, mg, sx, result, simplex_min, trace, ret, iters,
          evals, minos, cross, contour, scan, cov>>

\* ------------------------------------------------------------------------
\* Bounds of the model
\* ------------------------------------------------------------------------
MaxParams == 3          \* parameters added in the index and name specifications
MaxLimitedParams == 2   \* parameters added in the limits specification
MaxLimit == 2           \* limit values are drawn from 0..MaxLimit

NameChoices == {"a", "b", "c"}
Limits == 0..MaxLimit

\* Option<usize>::None of the external -> internal table
None == -1

\* ------------------------------------------------------------------------
\* MinuitParameter (src/src/parameter.rs)
\* ------------------------------------------------------------------------
NewParameter(num, name, value, error) ==
    [num |-> num, name |-> name, value |-> value, error |-> error,
     is_const |-> FALSE, is_fixed |-> FALSE,
     has_lower_limit |-> FALSE, has_upper_limit |-> FALSE,
     lower_limit |-> 0, upper_limit |-> 0]

WithLowerLimit(num, name, value, error, lower) ==
    [num |-> num, name |-> name, value |-> value, error |-> error,
     is_const |-> FALSE, is_fixed |-> FALSE,
     has_lower_limit |-> TRUE, has_upper_limit |-> FALSE,
     lower_limit |-> lower, upper_limit |-> 0]

WithUpperLimit(num, name, value, error, upper) ==
    [num |-> num, name |-> name, value |-> value, error |-> error,
     is_const |-> FALSE, is_fixed |-> FALSE,
     has_lower_limit |-> FALSE, has_upper_limit |-> TRUE,
     lower_limit |-> 0, upper_limit |-> upper]

WithLimits(num, name, value, error, lower, upper) ==
    [num |-> num, name |-> name, value |-> value, error |-> error,
     is_const |-> FALSE, is_fixed |-> FALSE,
     has_lower_limit |-> TRUE, has_upper_limit |-> TRUE,
     lower_limit |-> lower, upper_limit |-> upper]

ConstantParameter(num, name, value) ==
    [num |-> num, name |-> name, value |-> value, error |-> 0,
     is_const |-> TRUE, is_fixed |-> TRUE,
     has_lower_limit |-> FALSE, has_upper_limit |-> FALSE,
     lower_limit |-> 0, upper_limit |-> 0]

HasLimits(p) == p.has_lower_limit /\ p.has_upper_limit

ParamFix(p) == [p EXCEPT !.is_fixed = TRUE]

ParamReleaseIgnoringConst(p) == [p EXCEPT !.is_fixed = FALSE]

ParamRelease(p) == IF ~p.is_const THEN [p EXCEPT !.is_fixed = FALSE] ELSE p

\* assert!(lower < upper) of MinuitParameter::set_limits
SetLimitsAccepts(lower, upper) == lower < upper

ParamSetLimits(p, lower, upper) ==
    [p EXCEPT !.has_lower_limit = TRUE, !.has_upper_limit = TRUE,
              !.lower_limit = lower, !.upper_limit = upper]

ParamSetLowerLimit(p, lower) ==
    [p EXCEPT !.has_lower_limit = TRUE, !.lower_limit = lower]

ParamSetUpperLimit(p, upper) ==
    [p EXCEPT !.has_upper_limit = TRUE, !.upper_limit = upper]

ParamRemoveLimits(p) ==
    [p EXCEPT !.has_lower_limit = FALSE, !.has_upper_limit = FALSE]

\* ------------------------------------------------------------------------
\* MnUserTransformation index tables (src/src/user_transformation.rs)
\* ------------------------------------------------------------------------
\* The external indices, in increasing order, of the parameters of ps that
\* are not fixed: the int_of_ext vector rebuild_index leaves behind.
RECURSIVE UnfixedExts(_, _)
UnfixedExts(ps, k) ==
    IF k = 0 THEN <<>>
    ELSE IF ~ps[k].is_fixed
         THEN Append(UnfixedExts(ps, k - 1), k - 1)
         ELSE UnfixedExts(ps, k - 1)

\* Position (0-based) of external index e in the vector tbl.
PositionOf(tbl, e) == CHOOSE i \in 0..(Len(tbl) - 1) : tbl[i + 1] = e

RebuildIntOfExtKeepingFixed(ps) == [k \in 1..Len(ps) |-> k - 1]

RebuildIntOfExt(ps) == UnfixedExts(ps, Len(ps))

RebuildExtOfInt(ps) ==
    LET tbl == UnfixedExts(ps, Len(ps))
    IN  [k \in 1..Len(ps) |->
            IF ~ps[k].is_fixed THEN PositionOf(tbl, k - 1) ELSE None]

\* MnUserTransformation::add: push the parameter, extend both tables.
TrafoAdd(param) ==
    /\ parameters' = Append(parameters, param)
    /\ IF param.is_fixed
       THEN /\ ext_of_int' = Append(ext_of_int, None)
            /\ int_of_ext' = int_of_ext
       ELSE /\ ext_of_int' = Append(ext_of_int, Len(int_of_ext))
            /\ int_of_ext' = Append(int_of_ext, Len(parameters))

\* Accessors
variable_parameters == Len(int_of_ext)
IntOfExt(ext) == ext_of_int[ext + 1]
ExtOfInt(int) == int_of_ext[int + 1]

\* ------------------------------------------------------------------------
\* MnUserParameters (src/src/user_parameters.rs)
\* ------------------------------------------------------------------------
MapInsert(m, k, v) == [n \in (DOMAIN m) \cup {k} |-> IF n = k THEN v ELSE m[n]]
MapRemove(m, k) == [n \in (DOMAIN m) \ {k} |-> m[n]]
EmptyMap == [n \in {} |-> 0]

\* MnUserParameters::index
Index(name) == IF name \in DOMAIN name_map THEN name_map[name] ELSE None

\* The add* family: build the parameter, TrafoAdd, name_map.insert(name, ext).
Called(op, ext) == [op |-> op, ext |-> ext, panicked |-> FALSE]
Panicked(op, ext) == [op |-> op, ext |-> ext, panicked |-> TRUE]

\* TRUE when name is currently the name of a parameter other than ext.
HeldByOther(name, ext) ==
    \E k \in 1..Len(parameters) : k - 1 # ext /\ parameters[k].name = name

AddParam(op, param) ==
    /\ TrafoAdd(param)
    /\ name_map' = MapInsert(name_map, param.name, Len(parameters))
    /\ last_call' = Called(op, Len(parameters))
    /\ name_clash' = (name_clash \/ HeldByOther(param.name, Len(parameters)))
    /\ UNCHANGED engineVars

Add(name, value) == AddParam("add", NewParameter(Len(parameters), name, value, 1))

AddLimited(name, value, lower, upper) ==
    AddParam("add_limited", WithLimits(Len(parameters), name, value, 1, lower, upper))

AddLowerLimited(name, value, lower) ==
    AddParam("add_lower_limited", WithLowerLimit(Len(parameters), name, value, 1, lower))

AddUpperLimited(name, value, upper) ==
    AddParam("add_upper_limited", WithUpperLimit(Len(parameters), name, value, 1, upper))

AddConst(name, value) == AddParam("add_const", ConstantParameter(Len(parameters), name, value))

\* MnUserParameters::fix -> MnUserTransformation::fix: fix, then rebuild_index.
Fix(ext) ==
    LET ps == [parameters EXCEPT ![ext + 1] = ParamFix(@)]
    IN  /\ parameters' = ps
        /\ int_of_ext' = RebuildIntOfExt(ps)
        /\ ext_of_int' = RebuildExtOfInt(ps)
        /\ last_call' = Called("fix", ext)
        /\ UNCHANGED <<name_map, name_clash, engineVars>>

\* MnUserParameters::release -> MnUserTransformation::release.
Release(ext) ==
    LET ps == [parameters EXCEPT ![ext + 1] = ParamRelease(@)]
    IN  /\ parameters' = ps
        /\ int_of_ext' = RebuildIntOfExt(ps)
        /\ ext_of_int' = RebuildExtOfInt(ps)
        /\ last_call' = Called("release", ext)
        /\ UNCHANGED <<name_map, name_clash, engineVars>>

\* MnUserParameters::set_limits: the assertion of MinuitParameter::set_limits
\* aborts the call before any field is written.
SetLimits(ext, lower, upper) ==
    IF SetLimitsAccepts(lower, upper)
    THEN /\ parameters' = [parameters EXCEPT ![ext + 1] = ParamSetLimits(@, lower, upper)]
         /\ last_call' = Called("set_limits", ext)
         /\ UNCHANGED <<int_of_ext, ext_of_int, name_map, name_clash, engineVars>>
    ELSE /\ last_call' = Panicked("set_limits", ext)
         /\ UNCHANGED <<parameters, int_of_ext, ext_of_int, name_map, name_clash, engineVars>>

SetLowerLimit(ext, lower) ==
    /\ parameters' = [parameters EXCEPT ![ext + 1] = ParamSetLowerLimit(@, lower)]
    /\ last_call' = Called("set_lower_limit", ext)
    /\ UNCHANGED <<int_of_ext, ext_of_int, name_map, name_clash, engineVars>>

SetUpperLimit(ext, upper) ==
    /\ parameters' = [parameters EXCEPT ![ext + 1] = ParamSetUpperLimit(@, upper)]
    /\ last_call' = Called("set_upper_limit", ext)
    /\ UNCHANGED <<int_of_ext, ext_of_int, name_map, name_clash, engineVars>>

RemoveLimits(ext) ==
    /\ parameters' = [parameters EXCEPT ![ext + 1] = ParamRemoveLimits(@)]
    /\ last_call' = Called("remove_limits", ext)
    /\ UNCHANGED <<int_of_ext, ext_of_int, name_map, name_clash, engineVars>>

\* MnUserParameters::set_name: rename, name_map.remove(old), name_map.insert(new, ext).
SetNameMapInsertFirst(m, old, new, ext) == MapRemove(MapInsert(m, new, ext), old)

SetNameMap(m, old, new, ext) == MapInsert(MapRemove(m, old), new, ext)

SetName(ext, name) ==
    /\ parameters' = [parameters EXCEPT ![ext + 1].name = name]
    /\ name_map' = SetNameMap(name_map, parameters[ext + 1].name, name, ext)
    /\ last_call' = Called("set_name", ext)
    /\ name_clash' = (name_clash \/ HeldByOther(name, ext))
    /\ UNCHANGED <<int_of_ext, ext_of_int, engineVars>>

\* No minimize call has been made.
NoCall == [api |-> "none", strategy |-> 1, max_fcn |-> 0, tolerance_given |-> None,
           tolerance |-> 0, up |-> 0]
NoEngine == [kind |-> "none"]
NoSeed == [valid |-> FALSE]
NoLocals == [pass |-> 0]
NoResult == [kind |-> "none"]

NoQuery == [api |-> "none"]

\* No MnContours, MnParameterScan or MnUserCovariance is in use
ToolsIdle ==
    /\ contour = NoQuery
    /\ scan = NoQuery
    /\ cov = NoQuery

\* No analysis (Minos, ...) is in progress
AnalysisIdle ==
    /\ minos = NoQuery
    /\ cross = NoResult
    /\ ToolsIdle

\* No minimizer is running
EngineUnused ==
    /\ call = NoCall
    /\ eng = NoEngine
    /\ num_calls = 0
    /\ seed = NoSeed
    /\ mg = NoLocals
    /\ sx = NoLocals
    /\ result = NoResult
    /\ simplex_min = NoResult
    /\ trace = <<>>
    /\ ret = NoResult
    /\ iters = None

EngineIdle ==
    /\ EngineUnused
    /\ pc = "idle"
    /\ evals = None
    /\ AnalysisIdle

\* MnUserParameters::new
ParamInit ==
    /\ parameters = <<>>
    /\ int_of_ext = <<>>
    /\ ext_of_int = <<>>
    /\ name_map = EmptyMap
    /\ last_call = Called("new", None)
    /\ name_clash = FALSE
    /\ EngineIdle

Exts == 0..(Len(parameters) - 1)

\* Name given to the parameter of external index e where names play no role.
NameOfExt(e) == IF e = 0 THEN "a" ELSE IF e = 1 THEN "b" ELSE IF e = 2 THEN "c" ELSE "d"

\* ------------------------------------------------------------------------
\* Specification of the index tables: any sequence of add*, fix, release
\* ------------------------------------------------------------------------
IndexAdd ==
    /\ Len(parameters) < MaxParams
    /\ \/ Add(NameOfExt(Len(parameters)), 1)
       \/ AddLimited(NameOfExt(Len(parameters)), 1, 0, 2)
       \/ AddLowerLimited(NameOfExt(Len(parameters)), 1, 0)
       \/ AddUpperLimited(NameOfExt(Len(parameters)), 1, 2)
       \/ AddConst(NameOfExt(Len(parameters)), 1)

IndexFix == \E ext \in Exts : Fix(ext)

IndexRelease == \E ext \in Exts : Release(ext)

IndexNext == IndexAdd \/ IndexFix \/ IndexRelease

SpecIndex == ParamInit /\ [][IndexNext]_vars

\* C7: after any sequence of add, fix and release the internal-index table
\* lists exactly the unfixed parameters in increasing external order, the
\* external-to-internal table is its inverse on unfixed entries and None on
\* fixed ones, and variable_parameters() counts the unfixed parameters.
C7_IndexTablesInverse ==
    /\ Len(ext_of_int) = Len(parameters)
    /\ variable_parameters = Cardinality({e \in Exts : ~parameters[e + 1].is_fixed})
    /\ \A i \in 0..(variable_parameters - 1) :
          /\ ExtOfInt(i) \in Exts
          /\ ~parameters[ExtOfInt(i) + 1].is_fixed
          /\ IntOfExt(ExtOfInt(i)) = i
    /\ \A i, j \in 0..(variable_parameters - 1) : i < j => ExtOfInt(i) < ExtOfInt(j)
    /\ \A e \in Exts :
          IF parameters[e + 1].is_fixed
          THEN IntOfExt(e) = None
          ELSE /\ IntOfExt(e) \in 0..(variable_parameters - 1)
               /\ ExtOfInt(IntOfExt(e)) = e

\* C7 witness: a fix has removed external parameter 0 from the internal
\* space, so internal index 0 now maps to external index 1.
C7_Witness ==
    /\ Len(parameters) = 3
    /\ last_call.op = "fix"
    /\ parameters[1].is_fixed /\ ~parameters[1].is_const
    /\ variable_parameters = 2
    /\ ExtOfInt(0) = 1

\* C10: a constant parameter is fixed in every reachable state and stays
\* outside the internal index table; a release call on a constant parameter
\* changes nothing.
C10_ConstStaysFixed ==
    /\ [](\A e \in Exts :
            parameters[e + 1].is_const =>
                parameters[e + 1].is_fixed /\ IntOfExt(e) = None)
    /\ [][(last_call'.op = "release" /\ parameters[last_call'.ext + 1].is_const)
            => UNCHANGED containerVars]_vars

\* C10 witness: release has just been called on a constant parameter.
C10_Witness ==
    /\ last_call.op = "release"
    /\ parameters[last_call.ext + 1].is_const
    /\ parameters[last_call.ext + 1].is_fixed

\* ------------------------------------------------------------------------
\* Specification of the limits: add*, set_limits, set_lower_limit,
\* set_upper_limit, remove_limits
\* ------------------------------------------------------------------------
LimitsAdd ==
    /\ Len(parameters) < MaxLimitedParams
    /\ \/ Add(NameOfExt(Len(parameters)), 1)
       \/ \E lower, upper \in Limits : AddLimited(NameOfExt(Len(parameters)), 1, lower, upper)
       \/ \E lower \in Limits : AddLowerLimited(NameOfExt(Len(parameters)), 1, lower)
       \/ \E upper \in Limits : AddUpperLimited(NameOfExt(Len(parameters)), 1, upper)

LimitsSetLimits == \E ext \in Exts : \E lower, upper \in Limits : SetLimits(ext, lower, upper)

LimitsSetLowerLimit == \E ext \in Exts : \E lower \in Limits : SetLowerLimit(ext, lower)

LimitsSetUpperLimit == \E ext \in Exts : \E upper \in Limits : SetUpperLimit(ext, upper)

LimitsRemoveLimits == \E ext \in Exts : RemoveLimits(ext)

LimitsNext ==
    \/ LimitsAdd
    \/ LimitsSetLimits
    \/ LimitsSetLowerLimit
    \/ LimitsSetUpperLimit
    \/ LimitsRemoveLimits

SpecLimits == ParamInit /\ [][LimitsNext]_vars

\* C8: whenever a parameter has both bounds set, lower < upper (every
\* configuration call that would leave both bounds set with lower >= upper
\* fails at that call).
C8_BoundsOrdered ==
    \A e \in Exts :
        HasLimits(parameters[e + 1]) =>
            parameters[e + 1].lower_limit < parameters[e + 1].upper_limit

\* ------------------------------------------------------------------------
\* Specification of the name lookup: add*, set_name
\* ------------------------------------------------------------------------
NamesAdd ==
    /\ Len(parameters) < MaxParams
    /\ \E name \in NameChoices :
          \/ Add(name, 1)
          \/ AddConst(name, 1)

NamesSetName == \E ext \in Exts : \E name \in NameChoices : SetName(ext, name)

NamesNext == NamesAdd \/ NamesSetName

SpecNames == ParamInit /\ [][NamesNext]_vars

\* Name lookup is one-to-one: every parameter's current name resolves to its
\* own external index and no two names share a lookup entry.
NameLookupOneToOne ==
    /\ \A e \in Exts : Index(parameters[e + 1].name) = e
    /\ \A n1, n2 \in DOMAIN name_map : n1 # n2 => name_map[n1] # name_map[n2]

\* C9 (as stated): after any sequence of add* and set_name calls, name lookup
\* is one-to-one.
C9_NameLookupOneToOne == NameLookupOneToOne

\* C9 (amended): after any sequence of add* and set_name calls none of which
\* passed a name held at that moment by another parameter, name lookup is
\* one-to-one.
C9_NameLookupOneToOneIfDistinct == ~name_clash => NameLookupOneToOne

\* C9 witness: parameter 0 has been renamed and a second parameter exists,
\* no call having reused a name.
C9_Witness ==
    /\ ~name_clash
    /\ last_call.op = "set_name"
    /\ last_call.ext = 0
    /\ Len(parameters) >= 2
    /\ parameters[1].name = "c"
    /\ Index("c") = 0

\* ========================================================================
\* Minimization engines
\*
\* Numbers: tolerance is held in tenths and Up (error_def) in halves, and
\* every EDM value in ticks of 0.0001, so that tolerance * up * 0.002 is
\* the integer tolerance * up and tolerance * up is the integer
\* 500 * tolerance * up.  Objective values are finite, so EDM values are
\* ordinary numbers.  What the objective returns is not fixed: every
\* comparison on objective values is a free choice of the step.
\* ========================================================================
MaxMaxFcn == 11         \* the larger of the call budgets a call may set
MaxValue == 1           \* internal coordinates of a minimum are in 0..MaxValue

\* linesearch.rs: let maxiter = 12
LineSearchMaxIter == 12

\* application.rs: DEFAULT_TOLERANCE, in tenths
DEFAULT_TOLERANCE == 10

Strategies == {0, 2}
MaxFcnChoices == {0, MaxMaxFcn}

\* (tolerance, up) = (0.1, 1.0) and (not set, 0.5)
ToleranceAndUp == {<<1, 2>>, <<None, 1>>}

\* The tolerance field of a builder: DEFAULT_TOLERANCE from new(), or what
\* tolerance(tol) was given
BuilderTolerance(given) == IF given = None THEN DEFAULT_TOLERANCE ELSE given
ResultValues == 0..MaxValue

\* MnStrategy::new(level).grad_ncycles
GradNcycles(level) == IF level = 0 THEN 2 ELSE IF level = 2 THEN 5 ELSE 3

\* ------------------------------------------------------------------------
\* MnUserTransformation as a value: the parameters decide the tables
\* ------------------------------------------------------------------------
\* MnUserTransformation::variable_parameters of the transformation over ps
VariableParameters(ps) == Len(RebuildIntOfExt(ps))

\* Unbounded parameters: int2ext is the identity (the sin and sqrt
\* transforms of bounded parameters are not part of the engine runs).
Int2Ext(p, internal) == internal

TransformFixedAsVariable(ps, internal) ==
    [k \in 1..Len(ps) |->
        IF RebuildExtOfInt(ps)[k] # None
        THEN Int2Ext(ps[k], internal[RebuildExtOfInt(ps)[k] + 1])
        ELSE IF Len(internal) > 0 THEN Int2Ext(ps[k], internal[1]) ELSE 0]

\* MnUserTransformation::transform: internal vector -> external vector;
\* a fixed parameter contributes its stored value.
Transform(ps, internal) ==
    [k \in 1..Len(ps) |->
        IF RebuildExtOfInt(ps)[k] # None
        THEN Int2Ext(ps[k], internal[RebuildExtOfInt(ps)[k] + 1])
        ELSE ps[k].value]

\* MnUserTransformation::initial_internal_values
InitialInternalValues(ps) ==
    [i \in 1..VariableParameters(ps) |-> ps[RebuildIntOfExt(ps)[i] + 1].value]

\* All internal vectors of n coordinates
InternalVectors(n) == [1..n -> ResultValues]

\* The external values a parameter list holds
ValuesOf(ps) == [k \in 1..Len(ps) |-> ps[k].value]

\* ------------------------------------------------------------------------
\* FunctionMinimum (src/src/minimum/mod.rs)
\* ------------------------------------------------------------------------
\* MinimumError::new and MinimumError::from_diagonal: status and valid
MinimumErrorNew ==
    [status |-> "Accurate", valid |-> TRUE, hesse_failed |-> FALSE, made_pos_def |-> FALSE,
     invert_failed |-> FALSE, reached_call_limit |-> FALSE]
FromDiagonal == [MinimumErrorNew EXCEPT !.status = "ApproximateFromSteps"]

\* MinimumError::set_made_pos_def(true), set_hesse_failed(true),
\* set_invert_failed(true)
SetMadePosDef(err) == [err EXCEPT !.made_pos_def = TRUE, !.status = "MadePositiveDefinite"]
SetHesseFailed(err) == [err EXCEPT !.hesse_failed = TRUE, !.valid = FALSE]
SetInvertFailed(err) == [err EXCEPT !.invert_failed = TRUE, !.valid = FALSE]

\* MinimumState::new as far as the result reads it; MinimumParameters::new
\* sets valid.  Every caller passes an error matrix of MinimumError::new.
MinimumState(vec, edm, nfcn) ==
    [valid |-> TRUE, vec |-> vec, edm |-> edm, nfcn |-> nfcn, error |-> MinimumErrorNew]

\* MinimumState::from_params_edm
FromParamsEdm(vec, edm, nfcn) ==
    [valid |-> TRUE, vec |-> vec, edm |-> edm, nfcn |-> nfcn, error |-> FromDiagonal]

\* MinimumSeed::new, as far as later steps read it
MinimumSeed(state) == [valid |-> state.valid, vec |-> state.vec, nfcn |-> state.nfcn]

\* FunctionMinimum::new
FunctionMinimumNew(kind, sd, trafo, last, up) ==
    [kind |-> kind, trafo |-> trafo, seed |-> sd, state |-> last, up |-> up,
     is_above_max_edm |-> FALSE, reached_call_limit |-> FALSE]

\* FunctionMinimum::with_call_limit
WithCallLimit(kind, sd, trafo, last, up) ==
    [kind |-> kind, trafo |-> trafo, seed |-> sd, state |-> last, up |-> up,
     is_above_max_edm |-> FALSE, reached_call_limit |-> TRUE]

\* FunctionMinimum::above_max_edm
AboveMaxEdm(kind, sd, trafo, last, up) ==
    [kind |-> kind, trafo |-> trafo, seed |-> sd, state |-> last, up |-> up,
     is_above_max_edm |-> TRUE, reached_call_limit |-> FALSE]

\* A list of MinimumStates where the history is recorded: the states are
\* named by the order of their production, `n` of them after the first
\* `first` of the run.
Produced(first, n) == [i \in 1..n |-> first + i]

\* FunctionMinimum::new / with_call_limit / above_max_edm: the `states`
\* argument, kept by the result where the history is recorded
WithStates(fm, recorded, states) ==
    IF ~recorded
    THEN fm
    ELSE [f \in DOMAIN fm \cup {"states"} |-> IF f = "states" THEN states ELSE fm[f]]

\* FunctionMinimum::states
HasStates(fm) == "states" \in DOMAIN fm

\* FunctionMinimum::is_valid
IsValid(fm) == fm.state.valid /\ ~fm.is_above_max_edm /\ ~fm.reached_call_limit

\* FunctionMinimum::params
Params(fm) == Transform(fm.trafo, fm.state.vec)

\* FunctionMinimum::set_user_state
SetUserState(fm, user_state) ==
    [f \in DOMAIN fm \cup {"user_state"} |-> IF f = "user_state" THEN user_state ELSE fm[f]]

\* FunctionMinimum::build_user_state: the covariance is set, and
\* has_covariance() answers true, when last.error().is_valid(); a user
\* state given by set_user_state answers for itself.
HasCovariance(fm) ==
    IF "user_state" \in DOMAIN fm
    THEN fm.user_state.covariance_valid
    ELSE fm.state.error.valid

\* FunctionMinimum::nfcn, FunctionMinimum::edm
Nfcn(fm) == fm.state.nfcn
Edm(fm) == fm.state.edm

\* FunctionMinimum::add_parameter_from_state
AddParameterFromState(built, p, value, error) ==
    Append(built,
           IF HasLimits(p)
           THEN WithLimits(Len(built), p.name, value, error, p.lower_limit, p.upper_limit)
           ELSE IF p.has_lower_limit
           THEN WithLowerLimit(Len(built), p.name, value, error, p.lower_limit)
           ELSE IF p.has_upper_limit
           THEN WithUpperLimit(Len(built), p.name, value, error, p.upper_limit)
           ELSE NewParameter(Len(built), p.name, value, error))

\* FunctionMinimum::build_user_state, the parameters of the user state
\* (the error kept is the parameter's own: the covariance plays no role in
\* what follows).
RECURSIVE UserStateParams(_, _, _)
UserStateParams(trafo, external, k) ==
    IF k = 0 THEN <<>>
    ELSE LET built == UserStateParams(trafo, external, k - 1)
             p == trafo[k]
         IN  IF p.is_const
             THEN Append(built, ConstantParameter(Len(built), p.name, p.value))
             ELSE IF p.is_fixed
             THEN [AddParameterFromState(built, p, p.value, p.error)
                      EXCEPT ![k] = ParamFix(@)]
             ELSE AddParameterFromState(built, p, external[k], p.error)

\* FunctionMinimum::user_state().params()
UserState(fm) == UserStateParams(fm.trafo, Transform(fm.trafo, fm.state.vec), Len(fm.trafo))

\* ------------------------------------------------------------------------
\* The public call and its inputs
\* ------------------------------------------------------------------------
FreeParam(ext, value) == NewParameter(ext, NameOfExt(ext), value, 1)
FixedParam(ext, value) == ParamFix(NewParameter(ext, NameOfExt(ext), value, 1))
ConstParam(ext, value) == ConstantParameter(ext, NameOfExt(ext), value)

\* Parameter sets a builder can hold after add, add_const and fix.
EngineParamSets ==
    { <<FreeParam(0, 1)>>,
      <<FreeParam(0, 1), FixedParam(1, 2)>>,
      <<ConstParam(0, 2), FreeParam(1, 1)>>,
      <<FixedParam(0, 2)>> }

DirectApis == {"migrad", "migrad_grad", "simplex"}
Apis == DirectApis \cup {"minimize"}

NamesOf(ps) == [name \in {ps[k].name : k \in 1..Len(ps)} |->
                   (CHOOSE k \in 1..Len(ps) : ps[k].name = name) - 1]

\* The number of iterations of the running loop, where it is recorded
StartCount(i) == IF i = None THEN None ELSE 0
Count(i) == IF i = None THEN None ELSE i + 1

\* k more evaluations of the user function, where they are recorded
Evaluated(e, k) == IF e = None THEN None ELSE e + k

\* A builder holding one of the parameter sets, and one public call on it
\* with its settings; the engine has not started.
PublicCall(apis, strategies, settings, i, e) ==
    /\ parameters \in EngineParamSets
    /\ int_of_ext = RebuildIntOfExt(parameters)
    /\ ext_of_int = RebuildExtOfInt(parameters)
    /\ name_map = NamesOf(parameters)
    /\ last_call = Called("new", None)
    /\ name_clash = FALSE
    /\ \E api \in apis : \E strategy \in strategies : \E max_fcn \in MaxFcnChoices :
         \E tu \in settings :
           call = [api |-> api, strategy |-> strategy, max_fcn |-> max_fcn,
                   tolerance_given |-> tu[1],
                   tolerance |-> BuilderTolerance(tu[1]), up |-> tu[2]]
    /\ pc = "start"
    /\ eng = NoEngine
    /\ num_calls = 0
    /\ seed = NoSeed
    /\ mg = NoLocals
    /\ sx = NoLocals
    /\ result = NoResult
    /\ simplex_min = NoResult
    /\ trace = <<>>
    /\ ret = NoResult
    /\ iters = i
    /\ evals = e
    /\ AnalysisIdle

EngineInit == PublicCall(Apis, Strategies, ToleranceAndUp, None, None)

\* Hand the FunctionMinimum of the finished invocation to its caller: the
\* public MnMigrad / MnSimplex call returns it, MnMinimize goes on.
Deliver(fm) ==
    /\ result' = fm
    /\ IF call.api = "minimize"
       THEN pc' = "mn_step" /\ UNCHANGED ret
       ELSE pc' = "done" /\ ret' = fm

\* ------------------------------------------------------------------------
\* Migrad (src/src/migrad)
\* ------------------------------------------------------------------------
\* edmval = tolerance * up * 0.002
EdmVal(tolerance, up) == tolerance * up

MigradMaxEdmUnscaled(tolerance, up) == 500 * tolerance * up

\* The acceptance threshold of the outcome check: 10.0 * edmval
MigradMaxEdm(tolerance, up) == 10 * EdmVal(tolerance, up)

\* EDM values below edmval, at 10 * edmval and above it
EdmChoices(edmval) == {edmval - 1, 10 * edmval, 10 * edmval + 1}

\* mn_linesearch: one call, or two calls and up to maxiter more; the
\* least counts and the greatest are followed.
LineSearchCalls == {1, 2, 2 + LineSearchMaxIter}

\* Numerical2PGradientCalculator: per variable parameter, between one and
\* grad_ncycles cycles of two calls; the least count and the greatest are
\* followed.
GradientCalls(n, level) == {2 * n, 2 * n * GradNcycles(level)}

\* MnMigrad::minimize and MnMigrad::minimize_grad
MnMigradMinimize ==
    /\ pc = "start"
    /\ call.api \in {"migrad", "migrad_grad"}
    /\ eng' = [kind |-> call.api, trafo |-> parameters, strategy |-> call.strategy,
               maxfcn |-> call.max_fcn, tolerance |-> call.tolerance]
    /\ num_calls' = 0
    /\ pc' = "mg_seed"
    /\ UNCHANGED <<paramVars, analysisVars, call, seed, mg, sx, result, simplex_min, trace, ret, iters,
                   evals>>

\* VariableMetricMinimizer::minimize / minimize_with_gradient up to the
\* entry of the builder: MigradSeedGenerator::generate[_with_gradient].
\* The analytical path evaluates the objective outside the counter and
\* then counts with a fresh MnFcn.
MigradSeed ==
    /\ pc = "mg_seed"
    /\ LET n == VariableParameters(eng.trafo)
           edmval == EdmVal(eng.tolerance, call.up)
       IN  \E g \in GradientCalls(n, eng.strategy) : \E e \in EdmChoices(edmval) :
             LET counted == IF eng.kind = "migrad" THEN num_calls + 1 + g ELSE 0
                 state == MinimumState(InitialInternalValues(eng.trafo), e,
                                       IF eng.kind = "migrad" THEN counted ELSE 1)
                 sd == MinimumSeed(state)
             IN  /\ eng.kind = "migrad_grad" => g = 2 * n
                 /\ num_calls' = counted
                 /\ evals' = Evaluated(evals, IF eng.kind = "migrad" THEN 1 + g ELSE 1)
                 /\ seed' = sd
                 /\ iters' = StartCount(iters)
                 /\ IF ~sd.valid
                    THEN /\ Deliver(FunctionMinimumNew(eng.kind, sd, eng.trafo, state, call.up))
                         /\ UNCHANGED mg
                    ELSE /\ mg' = [pass |-> 1, budget |-> eng.maxfcn, edm |-> e,
                                   nonempty |-> FALSE, last |-> state,
                                   first |-> StartCount(iters)]
                         /\ pc' = "mg_loop"
                         /\ UNCHANGED <<result, ret>>
    /\ UNCHANGED <<paramVars, analysisVars, call, eng, sx, simplex_min, trace>>

\* states.push(MinimumState::new(.., edm, fcn.num_of_calls()))
MgPush(edm, nfcn) ==
    [mg EXCEPT !.edm = edm, !.nonempty = TRUE,
               !.last = MinimumState(mg.last.vec, edm, nfcn)]

\* iterate / iterate_with_gradient, from the top of the loop through the
\* line search and the no-improvement exit.
MigradLineSearch ==
    /\ pc = "mg_loop"
    /\ \E k \in LineSearchCalls : \E improved \in BOOLEAN :
         /\ num_calls' = num_calls + k
         /\ evals' = Evaluated(evals, k)
         /\ IF ~improved
            THEN mg' = MgPush(mg.edm, num_calls + k) /\ pc' = "mg_pass_end"
            ELSE mg' = mg /\ pc' = "mg_update"
    /\ iters' = Count(iters)
    /\ UNCHANGED <<paramVars, analysisVars, call, eng, seed, sx, result, simplex_min, trace, ret>>

MigradLoopExitNoCallLimit(edm, edmval, counted, budget) == edm < edmval

\* iterate: if edm < edmval break; if fcn.num_of_calls() >= maxfcn break
MigradLoopExit(edm, edmval, counted, budget) == edm < edmval \/ counted >= budget

\* iterate / iterate_with_gradient, the rest of the loop body: gradient,
\* DFP update, EDM, push, convergence exit, call-limit exit.
MigradUpdate ==
    /\ pc = "mg_update"
    /\ LET n == VariableParameters(eng.trafo)
           edmval == EdmVal(eng.tolerance, call.up)
       IN  \E g \in GradientCalls(n, eng.strategy) : \E e \in EdmChoices(edmval) :
             LET counted == IF eng.kind = "migrad" THEN num_calls + g ELSE num_calls
             IN  /\ eng.kind = "migrad_grad" => g = 2 * n
                 /\ num_calls' = counted
                 /\ evals' = Evaluated(evals, counted - num_calls)
                 /\ mg' = MgPush(e, counted)
                 /\ pc' = IF MigradLoopExit(e, edmval, counted, mg.budget)
                          THEN "mg_pass_end" ELSE "mg_loop"
    /\ UNCHANGED <<paramVars, analysisVars, call, eng, seed, sx, result, simplex_min, trace, ret, iters>>

MaxFcn2NotEnlarged(maxfcn) == maxfcn

\* (maxfcn as f64 * 1.3) as usize
MaxFcn2(maxfcn) == (13 * maxfcn) \div 10

\* usize::saturating_sub
SaturatingSub(a, b) == IF a > b THEN a - b ELSE 0

\* VariableMetricBuilder::minimum / minimum_with_gradient around the two
\* calls of iterate: return the first pass, or start the second one, whose
\* states replace those of the first.
MigradPassEnd ==
    /\ pc = "mg_pass_end"
    /\ LET edmval == EdmVal(eng.tolerance, call.up)
           maxfcn2 == MaxFcn2(eng.maxfcn)
           remaining == SaturatingSub(maxfcn2, num_calls)
       IN  IF mg.pass = 1 /\ ~(mg.nonempty /\ mg.last.edm < edmval) /\ ~(remaining < 10)
           THEN /\ mg' = [pass |-> 2, budget |-> maxfcn2, edm |-> mg.last.edm,
                          nonempty |-> FALSE, last |-> mg.last, first |-> iters]
                /\ iters' = StartCount(iters)
                /\ pc' = "mg_loop"
           ELSE /\ mg' = mg
                /\ iters' = iters
                /\ pc' = "mg_outcome"
    /\ UNCHANGED <<paramVars, analysisVars, call, eng, num_calls, seed, sx, result, simplex_min,
                   trace, ret, evals>>

OutcomeWithoutCallLimit(kind, sd, trafo, nfcn, maxfcn, last, maxedm, up) ==
    IF last.edm > maxedm
    THEN AboveMaxEdm(kind, sd, trafo, last, up)
    ELSE FunctionMinimumNew(kind, sd, trafo, last, up)

OutcomeAcceptingAnyEdm(kind, sd, trafo, nfcn, maxfcn, last, maxedm, up) ==
    IF nfcn >= maxfcn
    THEN WithCallLimit(kind, sd, trafo, last, up)
    ELSE FunctionMinimumNew(kind, sd, trafo, last, up)

\* VariableMetricMinimizer::minimize / minimize_with_gradient, "check
\* outcome"; SimplexMinimizer::minimize has the same lines with its own
\* threshold.
Outcome(kind, sd, trafo, nfcn, maxfcn, last, maxedm, up) ==
    IF nfcn >= maxfcn
    THEN WithCallLimit(kind, sd, trafo, last, up)
    ELSE IF last.edm > maxedm
         THEN AboveMaxEdm(kind, sd, trafo, last, up)
         ELSE FunctionMinimumNew(kind, sd, trafo, last, up)

\* VariableMetricBuilder::minimum / minimum_with_gradient, the value
\* returned: the states of the first pass, or
\* `if states2.is_empty() { states } else { states2 }` after a second one.
\* `first` is the length of `states` while the second pass runs and `n`
\* the number of states the iterate call that ended has pushed.
BuilderStates(pass, first, n, nonempty) ==
    IF pass = 2
    THEN IF nonempty THEN Produced(first, n) ELSE Produced(0, first)
    ELSE Produced(0, n)

\* The minimizer returns; the last state carries the internal vector the
\* iteration ended at.
MigradReturn ==
    /\ pc = "mg_outcome"
    /\ \E vec \in InternalVectors(VariableParameters(eng.trafo)) :
         Deliver(WithStates(Outcome(eng.kind, seed, eng.trafo, num_calls, eng.maxfcn,
                                    [mg.last EXCEPT !.vec = vec],
                                    MigradMaxEdm(eng.tolerance, call.up), call.up),
                            iters # None,
                            BuilderStates(mg.pass, mg.first, iters, mg.nonempty)))
    /\ UNCHANGED <<paramVars, analysisVars, call, eng, num_calls, seed, mg, sx, simplex_min, trace, iters,
                   evals>>

\* ------------------------------------------------------------------------
\* Simplex (src/src/simplex)
\* ------------------------------------------------------------------------
\* minedm = tolerance * up
MinEdm(tolerance, up) == 500 * tolerance * up

\* EDM values (worst minus best vertex) at minedm and above it
SimplexEdmChoices(minedm) == {minedm, minedm + 1}

\* MnSimplex::minimize: the variable count, the default call budget, a
\* fresh MnFcn, then SimplexMinimizer::minimize.
MnSimplexMinimize ==
    /\ pc = "start"
    /\ call.api = "simplex"
    /\ eng' = [kind |-> "simplex", trafo |-> parameters, strategy |-> call.strategy,
               maxfcn |-> call.max_fcn, tolerance |-> call.tolerance]
    /\ num_calls' = 0
    /\ pc' = "sx_seed"
    /\ UNCHANGED <<paramVars, analysisVars, call, seed, mg, sx, result, simplex_min, trace, ret, iters,
                   evals>>

\* SimplexMinimizer::minimize up to the loop of the builder:
\* SimplexSeedGenerator::generate (one call), then the n further vertices
\* of the initial simplex (one call each).
SimplexSeed ==
    /\ pc = "sx_seed"
    /\ LET n == VariableParameters(eng.trafo)
           minedm == MinEdm(eng.tolerance, call.up)
           state == MinimumState(InitialInternalValues(eng.trafo), 0, num_calls + 1)
           sd == MinimumSeed(state)
       IN  /\ seed' = sd
           /\ iters' = StartCount(iters)
           /\ IF ~sd.valid
              THEN /\ num_calls' = num_calls + 1
                   /\ evals' = Evaluated(evals, 1)
                   /\ Deliver(FunctionMinimumNew("simplex", sd, eng.trafo, state, call.up))
                   /\ UNCHANGED sx
              ELSE /\ num_calls' = num_calls + 1 + n
                   /\ evals' = Evaluated(evals, 1 + n)
                   /\ \E e \in SimplexEdmChoices(minedm) :
                        sx' = [edm |-> e, edm_prev |-> e, last |-> state, nstates |-> 0]
                   /\ pc' = "sx_loop"
                   /\ UNCHANGED <<result, ret>>
    /\ UNCHANGED <<paramVars, analysisVars, call, eng, mg, simplex_min, trace>>

ShouldStopOnCurrentEdm(edm, edm_prev, minedm, counted, maxfcn) ==
    counted >= maxfcn \/ edm <= minedm

\* SimplexBuilder::should_stop
ShouldStop(edm, edm_prev, minedm, counted, maxfcn) ==
    counted >= maxfcn \/ (edm <= minedm /\ edm_prev <= minedm)

\* The end of a loop iteration with the simplex updated to EDM e.
SimplexIterationEnd(e, edm_prev, counted) ==
    /\ sx' = [sx EXCEPT !.edm = e, !.edm_prev = edm_prev]
    /\ pc' = IF ShouldStop(e, edm_prev, MinEdm(eng.tolerance, call.up), counted, eng.maxfcn)
             THEN "sx_post" ELSE "sx_loop"

\* One iteration of the loop of SimplexBuilder::minimum from its top
\* through the reflection (ystar): a reflected point between best and
\* worst that moves the worst vertex ends the iteration; otherwise the
\* contraction or the expansion follows.
SimplexReflect ==
    /\ pc = "sx_loop"
    /\ num_calls' = num_calls + 1
    /\ evals' = Evaluated(evals, 1)
    /\ iters' = Count(iters)
    /\ \E e \in SimplexEdmChoices(MinEdm(eng.tolerance, call.up)) :
         \/ SimplexIterationEnd(e, sx.edm, num_calls + 1)
         \/ /\ sx' = [sx EXCEPT !.edm = e, !.edm_prev = sx.edm]
            /\ pc' = "sx_contract"
         \/ /\ e = sx.edm
            /\ sx' = [sx EXCEPT !.edm_prev = sx.edm]
            /\ pc' = "sx_expand"
    /\ UNCHANGED <<paramVars, analysisVars, call, eng, seed, mg, result, simplex_min, trace, ret>>

\* The contraction (ystst): a contraction point above the worst vertex
\* leaves the loop, otherwise it replaces the worst vertex.
SimplexContract ==
    /\ pc = "sx_contract"
    /\ num_calls' = num_calls + 1
    /\ evals' = Evaluated(evals, 1)
    /\ \/ /\ pc' = "sx_post"
          /\ sx' = sx
       \/ \E e \in SimplexEdmChoices(MinEdm(eng.tolerance, call.up)) :
            SimplexIterationEnd(e, sx.edm_prev, num_calls + 1)
    /\ UNCHANGED <<paramVars, analysisVars, call, eng, seed, mg, result, simplex_min, trace, ret, iters>>

\* The expansion (ystst) with the rho extrapolation, which may evaluate one
\* more point (yrho); one of the points replaces the worst vertex.
SimplexExpand ==
    /\ pc = "sx_expand"
    /\ \E rho \in {0, 1} : \E e \in SimplexEdmChoices(MinEdm(eng.tolerance, call.up)) :
         /\ num_calls' = num_calls + 1 + rho
         /\ evals' = Evaluated(evals, 1 + rho)
         /\ SimplexIterationEnd(e, sx.edm_prev, num_calls + 1 + rho)
    /\ UNCHANGED <<paramVars, analysisVars, call, eng, seed, mg, result, simplex_min, trace, ret, iters>>

\* After the loop: the centroid is evaluated (ybar) and may replace the
\* worst vertex; the single state returned (vec![state], nstates = 1)
\* carries the final EDM and fcn.num_of_calls().
SimplexPost ==
    /\ pc = "sx_post"
    /\ num_calls' = num_calls + 1
    /\ evals' = Evaluated(evals, 1)
    /\ \E e \in SimplexEdmChoices(MinEdm(eng.tolerance, call.up)) :
         \E vec \in InternalVectors(VariableParameters(eng.trafo)) :
           sx' = [sx EXCEPT !.edm = e, !.last = FromParamsEdm(vec, e, num_calls + 1),
                            !.nstates = 1]
    /\ pc' = "sx_outcome"
    /\ UNCHANGED <<paramVars, analysisVars, call, eng, seed, mg, result, simplex_min, trace, ret, iters>>

\* SimplexMinimizer::minimize, the check of the outcome
SimplexReturn ==
    /\ pc = "sx_outcome"
    /\ Deliver(Outcome("simplex", seed, eng.trafo, num_calls, eng.maxfcn, sx.last,
                       MinEdm(eng.tolerance, call.up), call.up))
    /\ UNCHANGED <<paramVars, analysisVars, call, eng, num_calls, seed, mg, sx, simplex_min, trace, iters,
                   evals>>

\* ------------------------------------------------------------------------
\* MnMinimize (src/src/minimize/mod.rs)
\* ------------------------------------------------------------------------
\* ParameterBuilder::add_from_param on the parameter list of a builder
AddFromParam(built, p) ==
    LET ext == Len(built)
        added == Append(built,
                   IF p.is_const
                   THEN ConstantParameter(ext, p.name, p.value)
                   ELSE IF HasLimits(p)
                   THEN WithLimits(ext, p.name, p.value, p.error, p.lower_limit, p.upper_limit)
                   ELSE IF p.has_lower_limit
                   THEN WithLowerLimit(ext, p.name, p.value, p.error, p.lower_limit)
                   ELSE IF p.has_upper_limit
                   THEN WithUpperLimit(ext, p.name, p.value, p.error, p.upper_limit)
                   ELSE NewParameter(ext, p.name, p.value, p.error))
    IN  IF p.is_fixed /\ ~p.is_const
        THEN [added EXCEPT ![p.num + 1] = ParamFix(@)]
        ELSE added

\* configure_builder_from_params: add_from_param over params.params()
RECURSIVE ConfigureBuilderFromParams(_, _)
ConfigureBuilderFromParams(ps, k) ==
    IF k = 0 THEN <<>>
    ELSE AddFromParam(ConfigureBuilderFromParams(ps, k - 1), ps[k])

\* let fallback_strategy = 2_u32
FallbackStrategy == 2

\* One entry of the history of MnMinimize::minimize: the engine invoked,
\* its strategy and the external values it starts from; the flags of its
\* result are filled in when it returns.
Invocation(kind, strategy, ps) ==
    [kind |-> kind, strategy |-> strategy, start |-> ValuesOf(ps),
     finished |-> FALSE, above |-> FALSE, limit |-> FALSE]

Finished(tr, fm) ==
    [tr EXCEPT ![Len(tr)].finished = TRUE,
               ![Len(tr)].above = fm.is_above_max_edm,
               ![Len(tr)].limit = fm.reached_call_limit]

\* MnMinimize::minimize, attempt 1: Migrad with the user-selected strategy.
MnMinimizeMinimize ==
    /\ pc = "start"
    /\ call.api = "minimize"
    /\ LET ps == ConfigureBuilderFromParams(parameters, Len(parameters))
       IN  /\ eng' = [kind |-> "migrad", trafo |-> ps, strategy |-> call.strategy,
                      maxfcn |-> call.max_fcn, tolerance |-> call.tolerance]
           /\ trace' = <<Invocation("migrad", call.strategy, ps)>>
    /\ num_calls' = 0
    /\ pc' = "mg_seed"
    /\ UNCHANGED <<paramVars, analysisVars, call, seed, mg, sx, result, simplex_min, ret, iters, evals>>

SecondMigradFromStart(fm) == parameters

\* The parameters the second Migrad is configured from
SecondMigradParams(fm) == UserState(fm)

\* if !simplex_min.is_valid() { return simplex_min; }
SimplexReturned(fm) == ~IsValid(fm)

\* MnMinimize::minimize after an engine has returned: return, or fall back.
MnMinimizeStep ==
    /\ pc = "mn_step"
    /\ \/ /\ Len(trace) = 1
          /\ IF IsValid(result)
             THEN /\ ret' = result
                  /\ pc' = "done"
                  /\ trace' = Finished(trace, result)
                  /\ UNCHANGED <<eng, num_calls, result, simplex_min, seed, mg, sx>>
             ELSE LET ps == ConfigureBuilderFromParams(parameters, Len(parameters))
                  IN  /\ eng' = [kind |-> "simplex", trafo |-> ps,
                                 strategy |-> FallbackStrategy,
                                 maxfcn |-> call.max_fcn, tolerance |-> call.tolerance]
                      /\ trace' = Append(Finished(trace, result),
                                         Invocation("simplex", FallbackStrategy, ps))
                      /\ num_calls' = 0
                      /\ result' = NoResult
                      /\ seed' = NoSeed /\ mg' = NoLocals /\ sx' = NoLocals
                      /\ pc' = "sx_seed"
                      /\ UNCHANGED <<ret, simplex_min>>
       \/ /\ Len(trace) = 2
          /\ IF SimplexReturned(result)
             THEN /\ ret' = result
                  /\ pc' = "done"
                  /\ trace' = Finished(trace, result)
                  /\ UNCHANGED <<eng, num_calls, result, simplex_min, seed, mg, sx>>
             ELSE LET ps == ConfigureBuilderFromParams(SecondMigradParams(result),
                                                       Len(SecondMigradParams(result)))
                  IN  /\ eng' = [kind |-> "migrad", trafo |-> ps,
                                 strategy |-> FallbackStrategy,
                                 maxfcn |-> call.max_fcn, tolerance |-> call.tolerance]
                      /\ trace' = Append(Finished(trace, result),
                                         Invocation("migrad", FallbackStrategy, ps))
                      /\ num_calls' = 0
                      /\ simplex_min' = result
                      /\ result' = NoResult
                      /\ seed' = NoSeed /\ mg' = NoLocals /\ sx' = NoLocals
                      /\ pc' = "mg_seed"
                      /\ UNCHANGED ret
       \/ /\ Len(trace) = 3
          /\ ret' = IF IsValid(result) THEN result ELSE simplex_min
          /\ pc' = "done"
          /\ trace' = Finished(trace, result)
          /\ UNCHANGED <<eng, num_calls, result, simplex_min, seed, mg, sx>>
    /\ UNCHANGED <<paramVars, analysisVars, call, iters, evals>>

\* ------------------------------------------------------------------------
\* Specification of the engines: one public call, run to its return
\* ------------------------------------------------------------------------
EngineNext ==
    \/ MnMigradMinimize
    \/ MigradSeed
    \/ MigradLineSearch
    \/ MigradUpdate
    \/ MigradPassEnd
    \/ MigradReturn
    \/ MnSimplexMinimize
    \/ SimplexSeed
    \/ SimplexReflect
    \/ SimplexContract
    \/ SimplexExpand
    \/ SimplexPost
    \/ SimplexReturn
    \/ MnMinimizeMinimize
    \/ MnMinimizeStep

SpecEngine == EngineInit /\ [][EngineNext]_vars

\* One Migrad or Simplex call with its loop iterations counted.  The call
\* runs on one thread in program order: a step that can be taken is taken.
DirectNext ==
    \/ MnMigradMinimize
    \/ MigradSeed
    \/ MigradLineSearch
    \/ MigradUpdate
    \/ MigradPassEnd
    \/ MigradReturn
    \/ MnSimplexMinimize
    \/ SimplexSeed
    \/ SimplexReflect
    \/ SimplexContract
    \/ SimplexExpand
    \/ SimplexPost
    \/ SimplexReturn

TerminationInit == PublicCall(DirectApis, Strategies, ToleranceAndUp, 0, None)

SpecTermination ==
    TerminationInit /\ [][DirectNext]_vars /\ WF_vars(DirectNext)


\* ------------------------------------------------------------------------
\* Claims on the results of the engines
\* ------------------------------------------------------------------------
\* An engine invocation has just returned, or the public call has.
Returned == pc \in {"done", "mn_step"} /\ result # NoResult

\* The threshold of the engine that produced fm, written out from the
\* inputs of the call: 10 * (tolerance * Up * 0.002) for Migrad and
\* tolerance * Up for Simplex, in ticks of 0.0001.
AcceptanceThreshold(fm) ==
    IF fm.kind = "simplex"
    THEN 500 * call.tolerance * call.up
    ELSE 10 * (call.tolerance * call.up)

\* C1: a FunctionMinimum returned by Migrad (numerical or analytical
\* gradient) or by Simplex whose counted calls at return are >= maxfcn has
\* reached_call_limit() true.
C1_CallLimitFlagged ==
    Returned =>
        ((num_calls >= call.max_fcn \/ Nfcn(result) >= call.max_fcn)
            => result.reached_call_limit)

C1_Witness ==
    /\ pc = "done"
    /\ call.api = "migrad_grad"
    /\ call.max_fcn = MaxMaxFcn
    /\ num_calls >= call.max_fcn
    /\ ret.reached_call_limit

\* C2: a Migrad result with is_valid() true has a final EDM of at most
\* 10 * (tolerance * Up * 0.002).
C2_ValidMigradWithinBand ==
    (Returned /\ result.kind \in {"migrad", "migrad_grad"} /\ IsValid(result))
        => Edm(result) <= 10 * (call.tolerance * call.up)

C2_Witness ==
    /\ pc = "done"
    /\ call.api = "migrad"
    /\ IsValid(ret)
    /\ Edm(ret) = 10 * (call.tolerance * call.up)
    /\ mg.pass = 2

\* C3 as stated: every result of Migrad or Simplex whose final EDM is above
\* the acceptance threshold of its engine has is_above_max_edm() true.
C3_AboveThresholdFlagged ==
    (Returned /\ Edm(result) > AcceptanceThreshold(result))
        => result.is_above_max_edm

\* C3 as the code has it: every result of Migrad or Simplex whose final EDM
\* is above the acceptance threshold of its engine and whose counted calls
\* are below maxfcn has is_above_max_edm() true; with the calls at maxfcn
\* or beyond, reached_call_limit() is set and is_above_max_edm() is not.
C3_AboveThresholdFlaggedBelowCallLimit ==
    (Returned /\ Edm(result) > AcceptanceThreshold(result))
        => IF num_calls < call.max_fcn
           THEN result.is_above_max_edm /\ ~result.reached_call_limit
           ELSE result.reached_call_limit /\ ~result.is_above_max_edm

C3_Witness ==
    /\ pc = "done"
    /\ call.api = "simplex"
    /\ Edm(ret) > AcceptanceThreshold(ret)
    /\ num_calls < call.max_fcn
    /\ ret.is_above_max_edm

C6_FixedKeepInitialValue ==
    pc = "done" =>
        /\ Len(Params(ret)) = Len(parameters)
        /\ \A k \in 1..Len(parameters) :
             (parameters[k].is_fixed \/ parameters[k].is_const)
                 => Params(ret)[k] = parameters[k].value

C6_Witness ==
    /\ pc = "done"
    /\ call.api = "minimize"
    /\ Len(trace) = 3
    /\ ret.kind = "migrad"
    /\ Len(parameters) = 2
    /\ parameters[1].is_const
    /\ Params(ret)[1] = parameters[1].value
    /\ Params(ret)[2] # parameters[2].value

\* ------------------------------------------------------------------------
\* Termination
\* ------------------------------------------------------------------------
\* The call budget of the running loop: maxfcn, and floor(1.3 * maxfcn) in
\* the second pass of Migrad.
LoopBudget == IF eng.kind = "simplex" THEN eng.maxfcn ELSE mg.budget

InLoop == pc \in {"mg_loop", "mg_update", "sx_loop", "sx_contract", "sx_expand"}
LoopEntered == pc \notin {"start", "mg_seed", "sx_seed"}

\* A step that begins a loop iteration makes at least one counted call.
IterationCounts == (iters' = iters + 1) => (num_calls' > num_calls)

\* A step from inside the loop body back to its top is taken only with the
\* call count below the budget.
LoopLeftAtBudget ==
    (InLoop /\ pc' \in {"mg_loop", "sx_loop"}) => (num_calls' < LoopBudget)

\* C4 as stated: every Migrad and Simplex invocation terminates, each loop
\* iteration makes at least one counted call, the loop is left once the
\* call count has reached the budget, and the number of iterations is at
\* most the call budget.
C4_IterationsWithinBudget ==
    /\ <>(pc = "done")
    /\ [][IterationCounts /\ LoopLeftAtBudget]_vars
    /\ [](LoopEntered => iters <= LoopBudget)

\* C4 as the code has it: every Migrad and Simplex invocation terminates,
\* each loop iteration makes at least one counted call, the loop is left
\* at the end of the iteration in which the call count has reached the
\* budget, and the number of iterations of a loop is at most its budget or
\* one, whichever is larger: the first iteration runs before any test of
\* the budget.
C4_TerminatesWithinBudgetOrOne ==
    /\ <>(pc = "done")
    /\ [][IterationCounts /\ LoopLeftAtBudget]_vars
    /\ [](LoopEntered => iters <= IF LoopBudget = 0 THEN 1 ELSE LoopBudget)

C4_Witness ==
    /\ pc = "done"
    /\ call.api = "migrad_grad"
    /\ mg.pass = 2
    /\ mg.budget = MaxFcn2(call.max_fcn)
    /\ iters + 1 = mg.budget
    /\ ret.reached_call_limit

\* ------------------------------------------------------------------------
\* C20: the default convergence tolerance of the engine builders
\* (DEFAULT_TOLERANCE, the tolerance of MnMigrad and MnMinimize when
\* tolerance() is not called) is 0.1, which is 1 in tenths.
C20_DefaultToleranceIsOneTenth ==
    (call.api \in {"migrad", "migrad_grad", "minimize"} /\ call.tolerance_given = None)
        => call.tolerance = 1

\* ------------------------------------------------------------------------
\* MnHesse (src/src/hesse) and the count of evaluations
\* ------------------------------------------------------------------------
\* MnStrategy::new(level).hess_ncycles and hess_grad_ncycles
HessNcycles(level) == IF level = 0 THEN 3 ELSE IF level = 2 THEN 7 ELSE 5
HessGradNcycles(level) == IF level = 0 THEN 1 ELSE IF level = 2 THEN 6 ELSE 2

\* hesse::calculator::calculate: per variable parameter between one and
\* hess_ncycles cycles of two calls, the gradient refinement of strategy
\* above 0 (up to hess_grad_ncycles cycles of two calls) and three calls
\* per pair of parameters; the least count and the greatest are followed.
HesseCalls(n, level) ==
    { 2 * n + 3 * ((n * (n - 1)) \div 2),
      2 * n * HessNcycles(level)
        + (IF level > 0 THEN 2 * n * HessGradNcycles(level) ELSE 0)
        + 3 * ((n * (n - 1)) \div 2) }

\* The number of states the Migrad run that returned has produced in its
\* one or two passes
StatesProduced == IF mg.pass = 2 THEN mg.first + iters ELSE iters

\* MnHesse::with_max_calls: not called, or called with a small budget
MaxHesseCalls == 3
HesseMaxCallsGiven == {None, MaxHesseCalls}

\* MnHesse::calculate: self.max_calls.unwrap_or(200 + 100 * n + 5 * n * n)
HesseMaxCalls(max_calls, n) ==
    IF max_calls = None THEN 200 + 100 * n + 5 * n * n ELSE max_calls

\* The diagonal loop tests the counter before every cycle of two calls.
EvenUp(k) == k + (k % 2)

\* A parameter takes at least two cycles where the strategy allows them
\* (the convergence test needs _cycle > 0) and at most hess_ncycles.
HessLeastCycles(level) == IF HessNcycles(level) < 2 THEN HessNcycles(level) ELSE 2

\* Step 2 of the calculator, which tests no budget: nothing when Hesse
\* failed or at strategy 0.
HesseRefineCalls(n, level, hesse_failed) ==
    IF level > 0 /\ ~hesse_failed THEN {2 * n, 2 * n * HessGradNcycles(level)} ELSE {0}

\* calculator::calculate, the calls it makes under the budget maxcalls:
\* a complete calculation, or one whose diagonal loop the budget ended.
\* `zero_diagonal` says that the last parameter was never reached, which
\* leaves its diagonal element 0; the pairs are then skipped as well.
HesseRuns(n, level, maxcalls, hesse_failed) ==
    {[count |-> h, exhausted |-> FALSE, zero_diagonal |-> FALSE] :
        h \in {x \in HesseCalls(n, level) : x <= maxcalls}}
    \cup
    {[count |-> EvenUp(maxcalls) + r, exhausted |-> TRUE, zero_diagonal |-> z] :
        r \in IF EvenUp(maxcalls) < 2 * n * HessNcycles(level)
              THEN HesseRefineCalls(n, level, hesse_failed) ELSE {},
        z \in {b \in BOOLEAN :
                 IF b THEN 2 * (n - 1) * HessNcycles(level) >= maxcalls
                      ELSE 2 * (n - 1) * HessLeastCycles(level) < maxcalls}}

\* calculator::calculate, steps 4 and 5: make_pos_def (which modifies a
\* matrix with a diagonal element <= 0) and the inversion
HesseError(inverted, was_modified, hesse_failed) ==
    IF inverted
    THEN LET err == MinimumErrorNew
             pd == IF was_modified THEN SetMadePosDef(err) ELSE err
         IN  IF hesse_failed THEN SetHesseFailed(pd) ELSE pd
    ELSE SetInvertFailed(MinimumErrorNew)

HesseErrors(zero_diagonal, hesse_failed) ==
    {HesseError(inverted, was_modified, hesse_failed) :
        inverted \in BOOLEAN,
        was_modified \in IF zero_diagonal THEN {TRUE} ELSE BOOLEAN}

\* build_user_state_with_covariance: user_state.set_covariance(..) sets
\* covariance_valid
BuildUserStateWithCovariance == [covariance_valid |-> TRUE]

\* MnHesse::calculate on the minimum a Migrad or Simplex call returned: a
\* fresh MnFcn counts the calls of the calculator, whose state is pushed
\* and carries fcn.num_of_calls().
MnHesseCalculate ==
    /\ pc = "done"
    /\ call.api # "minimize"
    /\ \E level \in Strategies, max_calls \in HesseMaxCallsGiven, hesse_failed \in BOOLEAN :
         LET n == VariableParameters(ret.trafo)
             maxcalls == HesseMaxCalls(max_calls, n)
         IN  \E run \in HesseRuns(n, level, maxcalls, hesse_failed) :
               \E e \in EdmChoices(EdmVal(call.tolerance, call.up)) :
                 \E error \in HesseErrors(run.zero_diagonal, hesse_failed) :
                   /\ num_calls' = run.count
                   /\ evals' = Evaluated(StartCount(evals), run.count)
                   /\ eng' = [kind |-> "hesse", trafo |-> ret.trafo, maxfcn |-> maxcalls,
                              exhausted |-> run.exhausted]
                   /\ ret' = WithStates(
                                SetUserState(
                                  FunctionMinimumNew("hesse", ret.seed, ret.trafo,
                                      [MinimumState(ret.state.vec, e, run.count)
                                         EXCEPT !.error = error],
                                      ret.up),
                                  BuildUserStateWithCovariance),
                                HasStates(ret),
                                IF HasStates(ret)
                                THEN Append(ret.states, StatesProduced + 1) ELSE <<>>)
    /\ pc' = "hesse_done"
    /\ UNCHANGED <<paramVars, analysisVars, call, seed, mg, sx, result, simplex_min, trace, iters>>

\* Every public operation with the evaluations of the user function
\* counted from its start.
CallsNext ==
    \/ MnMigradMinimize
    \/ MigradSeed
    \/ MigradLineSearch
    \/ MigradUpdate
    \/ MigradPassEnd
    \/ MigradReturn
    \/ MnSimplexMinimize
    \/ SimplexSeed
    \/ SimplexReflect
    \/ SimplexContract
    \/ SimplexExpand
    \/ SimplexPost
    \/ SimplexReturn
    \/ MnMinimizeMinimize
    \/ MnMinimizeStep
    \/ MnHesseCalculate

\* The count does not depend on the tolerance or on the strategy the user
\* selects: the default tolerance and strategy 0 are followed.
CallsInit == PublicCall(Apis, {0}, {<<None, 1>>}, None, 0)

SpecCalls == CallsInit /\ [][CallsNext]_vars

\* C11: nfcn() of a FunctionMinimum returned by a public operation (Migrad
\* with numerical or analytical gradients, Simplex, MnMinimize,
\* MnHesse::calculate) is the number of evaluations of the user function
\* made to produce it, counted from the start of the operation.
C11_NfcnIsTotalEvaluations ==
    pc \in {"done", "hesse_done"} => Nfcn(ret) = evals

\* C12: a Simplex run returns a history of a single MinimumState, and the
\* user state of its result reports has_covariance() = false.
C12_SimplexSingleStateNoCovariance ==
    (Returned /\ result.kind = "simplex")
        => (sx.nstates = 1 /\ ~HasCovariance(result))

\* ========================================================================
\* MnMinos (src/src/minos)
\*
\* Function values are in units of 0.001 and Up in halves, so 0.01 * Up is
\* 5 * up.  The nested fits are Migrad runs with the scanned parameter
\* fixed: what they return (validity, function value, calls) is a free
\* choice, and so is every comparison on positions along the scan.
\* ========================================================================
MaxCrossCalls == 6      \* the call budget an MnMinos query may set

\* let mut maxiter_slope = 15 and let maxitr = 15 in find_crossing
MaxIterSlope == 15
MaxItr == 15

\* ------------------------------------------------------------------------
\* MnCross (src/src/minos/cross.rs)
\* ------------------------------------------------------------------------
\* MnCross::valid
CrossValid(nfcn) ==
    [nfcn |-> nfcn, valid |-> TRUE, is_at_limit |-> FALSE, is_at_max_fcn |-> FALSE,
     new_minimum |-> FALSE]

\* MnCross::limit_reached
LimitReached(nfcn) ==
    [nfcn |-> nfcn, valid |-> FALSE, is_at_limit |-> TRUE, is_at_max_fcn |-> FALSE,
     new_minimum |-> FALSE]

CallLimitReachedKeepingValid(nfcn) ==
    [nfcn |-> nfcn, valid |-> TRUE, is_at_limit |-> FALSE, is_at_max_fcn |-> TRUE,
     new_minimum |-> FALSE]

\* MnCross::call_limit_reached
CallLimitReached(nfcn) ==
    [nfcn |-> nfcn, valid |-> FALSE, is_at_limit |-> FALSE, is_at_max_fcn |-> TRUE,
     new_minimum |-> FALSE]

\* MnCross::new_minimum_found
NewMinimumFound(nfcn) ==
    [nfcn |-> nfcn, valid |-> FALSE, is_at_limit |-> FALSE, is_at_max_fcn |-> FALSE,
     new_minimum |-> TRUE]

\* MnCross::invalid
Invalid(nfcn) ==
    [nfcn |-> nfcn, valid |-> FALSE, is_at_limit |-> FALSE, is_at_max_fcn |-> FALSE,
     new_minimum |-> FALSE]

\* ------------------------------------------------------------------------
\* The minimum and the query
\* ------------------------------------------------------------------------
\* default_max_fcn(n) and default_cross_calls(nvar)
DefaultMaxFcn(n) == 200 + 100 * n + 5 * n * n
DefaultCrossCalls(nvar) == 2 * (nvar + 1) * DefaultMaxFcn(nvar)

\* The parameters of the user state of the minimum
MinosParamSets ==
    { <<FreeParam(0, 1)>>,
      <<FreeParam(0, 1), FixedParam(1, 2)>>,
      <<ConstParam(0, 2), FreeParam(1, 1)>>,
      <<WithUpperLimit(0, NameOfExt(0), 1, 1, 2)>>,
      <<FreeParam(0, 1), WithLowerLimit(1, NameOfExt(1), 1, 1, 0)>> }

MinosApis == {"lower", "upper", "find_cross_value"}

\* lower, upper: direction -1.0 and 1.0; find_cross_value: dir < 0 or not
Direction(api, dir) ==
    IF api = "lower" THEN -1
    ELSE IF api = "upper" THEN 1
    ELSE IF dir < 0 THEN -1 ELSE 1

\* self.max_calls.unwrap_or_else(default) in find_crossing; maxcalls == 0
\* stands for the default in find_cross_value
CrossMaxCalls(api, given, nvar) ==
    IF api = "find_cross_value"
    THEN IF given = 0 THEN DefaultCrossCalls(nvar) ELSE given
    ELSE IF given = None THEN DefaultCrossCalls(nvar) ELSE given

MinosInit ==
    /\ parameters \in MinosParamSets
    /\ int_of_ext = RebuildIntOfExt(parameters)
    /\ ext_of_int = RebuildExtOfInt(parameters)
    /\ name_map = NamesOf(parameters)
    /\ last_call = Called("new", None)
    /\ name_clash = FALSE
    /\ EngineUnused
    /\ pc = "cx_query"
    /\ evals = 0
    /\ cross = NoResult
    /\ ToolsIdle
    /\ \E api \in MinosApis : \E par \in 0..(Len(parameters) - 1) :
         \E dir \in {-1, 0, 1} : \E given \in {None, 0, MaxCrossCalls} :
           \E up \in {1, 2} : \E fmin \in {0} :
             /\ api # "find_cross_value" => (dir = 0 /\ given # 0)
             /\ api = "find_cross_value" => given # None
             /\ minos = [api |-> api, par |-> par, dir |-> Direction(api, dir),
                         maxcalls |-> CrossMaxCalls(api, given,
                                                    VariableParameters(parameters)),
                         up |-> up, fmin |-> fmin, nfcn |-> 0,
                         last_fit |-> NoResult, maxiter_slope |-> MaxIterSlope,
                         itr |-> 0]

\* The parameter the query is about
MinosParameter == parameters[minos.par + 1]

\* limset, and the bound of the scan direction being set
LimSet(p) == p.has_lower_limit \/ p.has_upper_limit \/ HasLimits(p)
BoundAhead(p, dir) ==
    (dir > 0 /\ p.has_upper_limit) \/ (dir < 0 /\ p.has_lower_limit)

\* MnMinos::lower / upper (through MnMinos::find_crossing) and
\* MnMinos::find_cross_value up to the call of function_cross::find_crossing.
MnMinosQuery ==
    /\ pc = "cx_query"
    /\ IF minos.api \in {"lower", "upper"}
          /\ (MinosParameter.is_fixed \/ MinosParameter.is_const)
       THEN cross' = Invalid(0) /\ pc' = "cx_done"
       ELSE cross' = cross /\ pc' = "cx_entry"
    /\ UNCHANGED <<paramVars, toolVars, call, eng, num_calls, seed, mg, sx, result, simplex_min,
                   trace, ret, iters, evals, minos>>

\* find_cross_value: pdir = direction * err, pmid = val + pdir.  Positions
\* of the scanned parameter are in tenths, relative positions `a` along
\* the scan direction as well.
PositionAt(p, dir, a) == 10 * p.value + dir * p.error * (10 + a)

\* pmid >= p.upper_limit() going up, pmid <= p.lower_limit() going down
AtBound(p, dir, x) ==
    \/ dir > 0 /\ p.has_upper_limit /\ x >= 10 * p.upper_limit
    \/ dir < 0 /\ p.has_lower_limit /\ x <= 10 * p.lower_limit

\* function_cross::find_crossing, phase 1: a single limited parameter
\* already at its bound.
FindCrossingLimits ==
    /\ pc = "cx_entry"
    /\ IF /\ LimSet(MinosParameter) /\ Len(parameters) = 1
          /\ AtBound(MinosParameter, minos.dir, PositionAt(MinosParameter, minos.dir, 0))
       THEN /\ cross' = LimitReached(0)
            /\ pc' = "cx_done"
       ELSE /\ cross' = cross
            /\ pc' = "cx_first"
    /\ UNCHANGED <<paramVars, toolVars, call, eng, num_calls, seed, mg, sx, result, simplex_min,
                   trace, ret, iters, evals, minos>>

\* ------------------------------------------------------------------------
\* Nested fits
\* ------------------------------------------------------------------------
\* Calls of one nested Migrad: at least the evaluation of its seed
FitCalls == {1, 3}

\* 0.01 * up
NewMinimumMargin(up) == 5 * up

\* Function values a nested fit may return: below fmin - 0.01 * up, at it,
\* and above fmin
FitValues(fmin, up) ==
    {fmin - NewMinimumMargin(up) - 1, fmin - NewMinimumMargin(up), fmin + 100 * up}

\* run_migrad_fixed: a Migrad result; one that used up maxcalls is not valid
Fits(q) ==
    {f \in [valid : BOOLEAN, fval : FitValues(q.fmin, q.up), nfcn : FitCalls] :
        f.valid => f.nfcn < q.maxcalls}

\* ratio.sqrt() in tenths, as far as the clamp below can tell it apart
SqrtRatio(num, den) ==
    CHOOSE r \in 0..20 : r * r * den <= 100 * num /\ (r = 20 \/ (r + 1) * (r + 1) * den > 100 * num)

Clamp(x, lo, hi) == IF x < lo THEN lo ELSE IF x > hi THEN hi ELSE x

\* Phase 3, the heuristic step aopt from the value f0 of the first fit
\* (up is 100 times the margin 0.01 * up)
Aopt(f0, fmin, up) ==
    IF f0 - fmin < NewMinimumMargin(up) /\ fmin - f0 < NewMinimumMargin(up)
    THEN 10
    ELSE IF f0 - fmin > 0
         THEN Clamp(SqrtRatio(100 * NewMinimumMargin(up), f0 - fmin) - 10, -5, 10)
         ELSE 10

\* The value x (in tenths) lies within the bounds p has
WithinBounds(p, x) ==
    /\ p.has_lower_limit => x >= 10 * p.lower_limit
    /\ p.has_upper_limit => x <= 10 * p.upper_limit

\* run_migrad_fixed with the scanned parameter fixed at a value that is
\* within its bounds or not, as `within` says
FitsAt(q, within) ==
    {[valid |-> f.valid, fval |-> f.fval, nfcn |-> f.nfcn, within |-> w] :
        f \in Fits(q), w \in within}

NewMinimumOnlyFarBelow(fval, fmin, up) == fval < fmin - 2 * NewMinimumMargin(up)

\* migrad_result.fval() < fmin - 0.01 * up
NewMinimum(fval, fmin, up) == fval < fmin - NewMinimumMargin(up)

\* The locals after the nested fit f
Fitted(q, f) ==
    [q EXCEPT !.nfcn = q.nfcn + f.nfcn,
              !.last_fit = [valid |-> f.valid, fval |-> f.fval, within |-> f.within]]

\* The two tests that follow each nested fit: an invalid fit returns
\* MnCross::invalid, a function value below the minimum returns
\* MnCross::new_minimum_found; otherwise the search goes on.
FitReturns(q, f) == ~f.valid \/ NewMinimum(f.fval, q.fmin, q.up)

FitReturn(q, f) ==
    /\ minos' = Fitted(q, f)
    /\ cross' = IF ~f.valid THEN Invalid(q.nfcn + f.nfcn)
                 ELSE NewMinimumFound(q.nfcn + f.nfcn)
    /\ pc' = "cx_done"

Continue(q, to) ==
    /\ minos' = q
    /\ cross' = cross
    /\ pc' = to

Return(q, c) ==
    /\ minos' = q
    /\ cross' = c
    /\ pc' = "cx_done"

\* Phase 2: the first Migrad at pmid
FirstFit ==
    /\ pc = "cx_first"
    /\ \E f \in FitsAt(minos, {WithinBounds(MinosParameter,
                                            PositionAt(MinosParameter, minos.dir, 0))}) :
         /\ evals' = evals + f.nfcn
         /\ IF FitReturns(minos, f)
            THEN FitReturn(minos, f)
            ELSE Continue(Fitted(minos, f), "cx_second")
    /\ UNCHANGED <<paramVars, toolVars, call, eng, num_calls, seed, mg, sx, result, simplex_min,
                   trace, ret, iters>>

\* Phases 3 and 4: the heuristic step and the second Migrad
SecondFit ==
    /\ pc = "cx_second"
    /\ \E f \in FitsAt(minos,
                      {WithinBounds(MinosParameter,
                                    PositionAt(MinosParameter, minos.dir,
                                               Aopt(minos.last_fit.fval, minos.fmin,
                                                    minos.up)))}) :
         /\ evals' = evals + f.nfcn
         /\ IF FitReturns(minos, f)
            THEN FitReturn(minos, f)
            ELSE Continue(Fitted(minos, f), "cx_slope")
    /\ UNCHANGED <<paramVars, toolVars, call, eng, num_calls, seed, mg, sx, result, simplex_min,
                   trace, ret, iters>>

\* Phase 5: while dfda < 0.0 && maxiter_slope > 0, one more fit further
\* out unless the bound is passed (the fit is then within the bounds); a
\* slope still negative is a failure.
\* The counter is not read after the loop and is cleared on leaving it.
EnsureSlope ==
    /\ pc = "cx_slope"
    /\ \E negative \in BOOLEAN :
         IF negative /\ minos.maxiter_slope > 0
         THEN LET q == [minos EXCEPT !.maxiter_slope = @ - 1]
              IN  \/ /\ LimSet(MinosParameter) /\ BoundAhead(MinosParameter, minos.dir)
                     /\ Return(q, LimitReached(q.nfcn))
                     /\ evals' = evals
                  \/ \E f \in FitsAt(q, {TRUE}) :
                       /\ evals' = evals + f.nfcn
                       /\ IF FitReturns(q, f)
                          THEN FitReturn(q, f)
                          ELSE Continue(Fitted(q, f), "cx_slope")
         ELSE IF negative
         THEN Return(minos, Invalid(minos.nfcn)) /\ evals' = evals
         ELSE /\ Continue([minos EXCEPT !.maxiter_slope = 0], "cx_extrapolate")
              /\ evals' = evals
    /\ UNCHANGED <<paramVars, toolVars, call, eng, num_calls, seed, mg, sx, result, simplex_min,
                   trace, ret, iters>>

\* Phase 6: linear extrapolation to the crossing, a fit there, and the
\* test of convergence.  a_cross = a_left + (fmin + up - f_left) / dfda is
\* as far out as the slope is flat, and no bound is tested before the fit.
Extrapolate ==
    /\ pc = "cx_extrapolate"
    /\ \E f \in FitsAt(minos, IF BoundAhead(MinosParameter, minos.dir)
                             THEN BOOLEAN ELSE {TRUE}) :
         /\ evals' = evals + f.nfcn
         /\ IF FitReturns(minos, f)
            THEN FitReturn(minos, f)
            ELSE LET q == Fitted(minos, f)
                 IN  \/ Return(q, CrossValid(q.nfcn))
                     \/ Continue(q, "cx_parabola")
    /\ UNCHANGED <<paramVars, toolVars, call, eng, num_calls, seed, mg, sx, result, simplex_min,
                   trace, ret, iters>>

\* Phase 7: one iteration of for _itr in 0..maxitr, or the end of the loop
Parabola ==
    /\ pc = "cx_parabola"
    /\ IF minos.itr = MaxItr
       THEN Return(minos, Invalid(minos.nfcn)) /\ evals' = evals
       ELSE IF minos.nfcn >= minos.maxcalls
       THEN Return(minos, CallLimitReached(minos.nfcn)) /\ evals' = evals
       ELSE \/ Return(minos, Invalid(minos.nfcn)) /\ evals' = evals
            \/ /\ LimSet(MinosParameter) /\ BoundAhead(MinosParameter, minos.dir)
               /\ Return(minos, LimitReached(minos.nfcn))
               /\ evals' = evals
            \/ \E f \in FitsAt(minos, {TRUE}) :
                 /\ evals' = evals + f.nfcn
                 /\ IF FitReturns(minos, f)
                    THEN FitReturn(minos, f)
                    ELSE LET q == Fitted(minos, f)
                         IN  \/ Return(q, CrossValid(q.nfcn))
                             \/ Continue([q EXCEPT !.itr = @ + 1], "cx_parabola")
    /\ UNCHANGED <<paramVars, toolVars, call, eng, num_calls, seed, mg, sx, result, simplex_min,
                   trace, ret, iters>>

MinosNext ==
    \/ MnMinosQuery
    \/ FindCrossingLimits
    \/ FirstFit
    \/ SecondFit
    \/ EnsureSlope
    \/ Extrapolate
    \/ Parabola

SpecMinos == MinosInit /\ [][MinosNext]_vars

\* ------------------------------------------------------------------------
\* Claims on MnMinos
\* ------------------------------------------------------------------------
\* C13: for a parameter that is fixed or constant in the minimum, every
\* crossing query (lower, upper, find_cross_value) returns an invalid
\* MnCross at once, without an evaluation of the user function.
C13_FixedParameterInvalidAtOnce ==
    (pc = "cx_done" /\ (MinosParameter.is_fixed \/ MinosParameter.is_const))
        => (~cross.valid /\ cross.nfcn = 0 /\ evals = 0)

\* The number of outcome flags an MnCross has set
FlagsSet(c) ==
    Cardinality({flag \in {"valid", "is_at_limit", "is_at_max_fcn", "new_minimum"} :
                    c[flag]})

\* C14 as stated: every MnCross returned by a crossing search has exactly
\* one of the flags valid, at_limit, at_max_fcn, new_minimum set.
C14_ExactlyOneOutcomeFlag ==
    pc = "cx_done" => FlagsSet(cross) = 1

\* C14 as the code has it: every MnCross returned by a crossing search has
\* at most one of the four flags set; MnCross::invalid, the outcome of a
\* search that failed otherwise, has none.
C14_AtMostOneOutcomeFlag ==
    pc = "cx_done" => FlagsSet(cross) <= 1

C14_Witness ==
    /\ pc = "cx_done"
    /\ FlagsSet(cross) = 0
    /\ minos.itr = MaxItr
    /\ cross.nfcn > 0

\* The last nested fit returned a function value below fmin - 0.01 * up
LastFitBelowMinimum ==
    /\ minos.api # "none"
    /\ minos.last_fit # NoResult
    /\ minos.last_fit.fval < minos.fmin - 5 * minos.up

\* C15 as stated: as soon as a nested fit yields a function value below
\* fmin - 0.01 * Up, the search is over (no further nested fit) and the
\* cross returned has new_minimum = true and valid = false.
C15_NewMinimumAborts ==
    LastFitBelowMinimum
        => (pc = "cx_done" /\ cross.new_minimum /\ ~cross.valid)

\* C15 as the code has it: as soon as a valid nested fit yields a function
\* value below fmin - 0.01 * Up, the search is over and the cross returned
\* has new_minimum = true and valid = false; an invalid nested fit ends
\* the search with MnCross::invalid whatever its function value.
C15_NewMinimumOfValidFitAborts ==
    LastFitBelowMinimum
        => /\ pc = "cx_done"
           /\ ~cross.valid
           /\ cross.new_minimum = minos.last_fit.valid

C15_Witness ==
    /\ pc = "cx_done"
    /\ LastFitBelowMinimum
    /\ minos.last_fit.valid
    /\ cross.new_minimum
    /\ minos.itr > 0

\* C27: every nested fit of the crossing search runs with the scanned
\* parameter fixed at a value within [lower, upper]; a step that would
\* leave the bounds ends the search with the at-limit outcome instead.
C27_ScannedParameterStaysInBounds ==
    (pc \in {"cx_second", "cx_slope", "cx_extrapolate", "cx_parabola", "cx_done"}
        /\ minos.last_fit # NoResult)
    => minos.last_fit.within

\* ------------------------------------------------------------------------
\* MnContours::points  (contours/mod.rs)
\*
\* Coordinates are integers.  The function value at a midpoint, f_mid, is
\* the user's; what the code makes of it is
\* ratio = sqrt((fmin + up) / (f_mid - fmin)).  Up, the values of fmin and
\* f_mid - fmin are chosen to make the ratio 0 or an even integer, which
\* keeps the new point on the grid; a midpoint on the grid may also have
\* f_mid = fmin, where the ratio is 1.
\* ------------------------------------------------------------------------
MaxNPoints == 7         \* the largest npoints a call asks for
MaxMinosError == 3      \* the largest MINOS error of an axis
CardinalPoints == 4     \* npoints.max(4)

Point(x, y) == [x |-> x, y |-> y]

\* let npoints = npoints.max(4)
EffectiveNPoints(npoints) == IF npoints > CardinalPoints THEN npoints ELSE CardinalPoints

\* MinosError::is_valid
MinosErrorIsValid(me) == me.lower_valid /\ me.upper_valid

\* The MINOS errors MnMinos::minos_error may return for an axis
MinosErrors ==
    [lower_valid : BOOLEAN, upper_valid : BOOLEAN,
     lower_error : {-1, -MaxMinosError}, upper_error : {1}]

\* The 4 cardinal points: right, top, left, bottom
Cardinal(c, xm, ym) ==
    << Point(c.x + xm.upper_error, c.y),
       Point(c.x, c.y + ym.upper_error),
       Point(c.x + xm.lower_error, c.y),
       Point(c.x, c.y + ym.lower_error) >>

\* scalx = 1 / (x_up - x_lo) unless the range is zero: its denominator
ScaleDen(range) == IF range # 0 THEN range ELSE 1

\* dist^2 of the gap after pts[i], times (wx * wy)^2
GapSq(pts, i, wx, wy) ==
    LET j  == (i % Len(pts)) + 1
        dx == pts[j].x - pts[i].x
        dy == pts[j].y - pts[i].y
    IN  dx * dx * wy * wy + dy * dy * wx * wx

\* max_idx: the first gap that is strictly larger than all before it
LargestGap(pts, wx, wy) ==
    CHOOSE i \in 1..Len(pts) :
        /\ \A k \in 1..Len(pts) : GapSq(pts, k, wx, wy) <= GapSq(pts, i, wx, wy)
        /\ \A k \in 1..(i - 1) : GapSq(pts, k, wx, wy) < GapSq(pts, i, wx, wy)

\* Up of the minimum, the values of fmin (-Up, 0 and 3 * Up) and the
\* distance of f_mid from fmin at a midpoint off the minimum
ContourUp == 4
ContourFmins == {-ContourUp, 0, 3 * ContourUp}
ContourRise == 1

\* f64::sqrt on the squares the ratio takes
Sqrt(x) == CHOOSE r \in 0..x : r * r <= x /\ (r + 1) * (r + 1) > x

RatioOfUpAlone(fmin, up, f_mid) ==
    IF f_mid - fmin # 0 THEN Sqrt(up \div (f_mid - fmin)) ELSE 1

\* let target = fmin + up; ratio = sqrt(target / (f_mid - fmin)) unless
\* |f_mid - fmin| <= 1e-15, where it is 1.0
Ratio(fmin, up, f_mid) ==
    IF f_mid - fmin # 0 THEN Sqrt((fmin + up) \div (f_mid - fmin)) ELSE 1

\* The values of the user function at the midpoint of a and b that are
\* followed: above fmin, and fmin itself where the midpoint is on the grid
MidValues(a, b, fmin) ==
    {fmin + ContourRise}
    \cup (IF (a.x + b.x) % 2 = 0 /\ (a.y + b.y) % 2 = 0 THEN {fmin} ELSE {})

\* (new_x, new_y): the centre moved by ratio * (midpoint - centre)
NewPoint(a, b, c, ratio) ==
    Point(c.x + ((a.x + b.x - 2 * c.x) * ratio) \div 2,
          c.y + ((a.y + b.y - 2 * c.y) * ratio) \div 2)

\* pts.insert(max_idx + 1, p)
InsertAfter(pts, i, p) == SubSeq(pts, 1, i) \o <<p>> \o SubSeq(pts, i + 1, Len(pts))

ContoursInit ==
    /\ parameters = <<FreeParam(0, 1), FreeParam(1, 1)>>
    /\ int_of_ext = RebuildIntOfExt(parameters)
    /\ ext_of_int = RebuildExtOfInt(parameters)
    /\ name_map = NamesOf(parameters)
    /\ last_call = Called("new", None)
    /\ name_clash = FALSE
    /\ EngineUnused
    /\ pc = "ct_query"
    /\ evals = None
    /\ minos = NoQuery
    /\ cross = NoResult
    /\ scan = NoQuery
    /\ cov = NoQuery
    /\ \E npoints \in 0..MaxNPoints : \E xm \in MinosErrors : \E ym \in MinosErrors :
         \E fmin \in ContourFmins :
           contour = [api |-> "points", npoints |-> npoints, x_minos |-> xm,
                      y_minos |-> ym, centre |-> Point(0, 0),
                      fmin |-> fmin, up |-> ContourUp, f_mid |-> fmin, remaining |-> 0,
                      pts |-> <<>>]

\* points up to the loop: no point without both MINOS errors, the cardinal
\* points alone for npoints <= 4
ContoursPoints ==
    /\ pc = "ct_query"
    /\ LET n   == EffectiveNPoints(contour.npoints)
           pts == Cardinal(contour.centre, contour.x_minos, contour.y_minos)
       IN  IF ~MinosErrorIsValid(contour.x_minos) \/ ~MinosErrorIsValid(contour.y_minos)
           THEN /\ contour' = [contour EXCEPT !.pts = <<>>]
                /\ pc' = "ct_done"
           ELSE IF n <= CardinalPoints
           THEN /\ contour' = [contour EXCEPT !.pts = pts]
                /\ pc' = "ct_done"
           ELSE /\ contour' = [contour EXCEPT !.pts = pts,
                                              !.remaining = n - CardinalPoints]
                /\ pc' = "ct_loop"
    /\ UNCHANGED <<paramVars, call, eng, num_calls, seed, mg, sx, result, simplex_min,
                   trace, ret, iters, evals, minos, cross, scan, cov>>

\* One pass of for _ in 0..remaining: bisect the largest gap, or skip
ContoursBisect ==
    /\ pc = "ct_loop"
    /\ contour.remaining > 0
    /\ LET pts == contour.pts
           wx  == ScaleDen(contour.x_minos.upper_error - contour.x_minos.lower_error)
           wy  == ScaleDen(contour.y_minos.upper_error - contour.y_minos.lower_error)
       IN  LET i == LargestGap(pts, wx, wy)
               j == (i % Len(pts)) + 1
           IN  IF pts[i] = pts[j]
               THEN contour' = [contour EXCEPT !.remaining = @ - 1]
               ELSE \E f_mid \in MidValues(pts[i], pts[j], contour.fmin) :
                      LET p == NewPoint(pts[i], pts[j], contour.centre,
                                        Ratio(contour.fmin, contour.up, f_mid))
                      IN  IF p = pts[i]
                          THEN contour' = [contour EXCEPT !.remaining = @ - 1,
                                                          !.f_mid = f_mid]
                          ELSE contour' = [contour EXCEPT !.remaining = @ - 1,
                                                          !.f_mid = f_mid,
                                                          !.pts = InsertAfter(pts, i, p)]
    /\ pc' = pc
    /\ UNCHANGED <<paramVars, call, eng, num_calls, seed, mg, sx, result, simplex_min,
                   trace, ret, iters, evals, minos, cross, scan, cov>>

\* The loop is over: pts is returned
ContoursReturn ==
    /\ pc = "ct_loop"
    /\ contour.remaining = 0
    /\ pc' = "ct_done"
    /\ UNCHANGED <<paramVars, call, eng, num_calls, seed, mg, sx, result, simplex_min,
                   trace, ret, iters, evals, minos, cross, contour, scan, cov>>

ContoursNext ==
    \/ ContoursPoints
    \/ ContoursBisect
    \/ ContoursReturn

SpecContours == ContoursInit /\ [][ContoursNext]_vars

\* ------------------------------------------------------------------------
\* C16: when the MINOS errors of both axes are valid,
\* MnContours::points(par_x, par_y, npoints) returns exactly
\* max(npoints, 4) points.
C16_ExactlyRequestedPoints ==
    (pc = "ct_done" /\ MinosErrorIsValid(contour.x_minos)
                    /\ MinosErrorIsValid(contour.y_minos))
        => Len(contour.pts) = EffectiveNPoints(contour.npoints)

\* C30: a point inserted by the refinement is the centre moved towards the
\* midpoint of the largest gap by the factor sqrt(Up / (f_mid - fmin)),
\* the numerator being Up alone, and by the factor 1 when f_mid = fmin.
C30_RatioUsesUpAlone ==
    [][(pc = "ct_loop" /\ Len(contour'.pts) = Len(contour.pts) + 1) =>
          LET pts == contour.pts
              wx  == ScaleDen(contour.x_minos.upper_error - contour.x_minos.lower_error)
              wy  == ScaleDen(contour.y_minos.upper_error - contour.y_minos.lower_error)
              i   == LargestGap(pts, wx, wy)
              j   == (i % Len(pts)) + 1
          IN  contour'.pts =
                InsertAfter(pts, i,
                            NewPoint(pts[i], pts[j], contour.centre,
                                     RatioOfUpAlone(contour.fmin, contour.up,
                                                    contour'.f_mid)))]_vars

\* ------------------------------------------------------------------------
\* MnParameterScan  (scan/mod.rs)
\*
\* The scanner owns params (the variable parameters) and fval (scan.fval).
\* The user function is pure: its values at the n + 1 scan points are a
\* table fixed when a scan begins.  x is kept on the integer grid.
\* ------------------------------------------------------------------------
MaxF == 1             \* the largest value the user function takes
MaxScanX == 2         \* the scanned range lies within -MaxScanX..MaxScanX
MinScanSteps == 2     \* nsteps.clamp(2, 101)
MaxScanSteps == 101

FValues == 0..MaxF

\* let nsteps = nsteps.clamp(2, 101)
ClampSteps(nsteps) ==
    IF nsteps < MinScanSteps THEN MinScanSteps
    ELSE IF nsteps > MaxScanSteps THEN MaxScanSteps ELSE nsteps

\* clamp_scan_bounds
ClampScanBounds(low, high, p) ==
    [low  |-> IF p.has_lower_limit /\ low < p.lower_limit THEN p.lower_limit ELSE low,
     high |-> IF p.has_upper_limit /\ high > p.upper_limit THEN p.upper_limit ELSE high]

\* setup_scan: the range, val -/+ 2 * err when low == high
ScanRange(p, low, high) ==
    IF low = high
    THEN ClampScanBounds(p.value - 2 * p.error, p.value + 2 * p.error, p)
    ELSE ClampScanBounds(low, high, p)

\* low + i as f64 * step with step = (high - low) / nsteps, on the grid
XAt(low, high, nsteps, i) == low + (i * (high - low)) \div nsteps

\* scan_point for the i-th point
ScanPoint(s, i) == [x |-> XAt(s.low, s.high, s.nsteps, i), f |-> s.table[i + 1]]

\* scan_points: (0..=nsteps).map(scan_point).collect()
ScanPoints(s) == [i \in 1..(s.nsteps + 1) |-> ScanPoint(s, i - 1)]

\* A slot of the result that no worker has filled
NoPoint == [x |-> 0, f |-> None]

\* into_par_iter().map().collect(): the point of index i, whenever it
\* arrives, is the i-th element of the collected Vec
CollectInArrival(res, arrived, i, p) == [res EXCEPT ![arrived + 1] = p]

Collect(res, arrived, i, p) == [res EXCEPT ![i + 1] = p]

\* MinuitParameter::set_value
ParamSetValue(p, val) == [p EXCEPT !.value = val]

\* result.iter().copied().min_by(|a, b| a.1.total_cmp(&b.1)): the first
\* of the points of least f
MinBy(res) ==
    CHOOSE i \in 1..Len(res) :
        /\ \A k \in 1..Len(res) : res[i].f <= res[k].f
        /\ \A k \in 1..(i - 1) : res[k].f > res[i].f

ImprovesOrTies(f_best, fval) == f_best <= fval

\* f_best < self.fval
Improves(f_best, fval) == f_best < fval

\* update_best
UpdateBest(fval, ps, par, res) ==
    LET best == res[MinBy(res)]
    IN  IF Improves(best.f, fval)
        THEN [fval |-> best.f,
              parameters |-> [ps EXCEPT ![par + 1] = ParamSetValue(@, best.x)]]
        ELSE [fval |-> fval, parameters |-> ps]

\* The parameters a scanner is built on
ScanParamSets ==
    { <<NewParameter(0, NameOfExt(0), 0, 1),
        WithUpperLimit(1, NameOfExt(1), 0, 1, 1)>> }

\* The arguments of a scan: nsteps, low, high
ScanArgs == {0, 3} \X {<<0, 0>>, <<-MaxScanX, MaxScanX>>}

\* setup_scan for the arguments, with the function's table
Setup(mode, par, nsteps, low, high, table) ==
    LET r == ScanRange(parameters[par + 1], low, high)
    IN  [mode |-> mode, par |-> par, nsteps |-> ClampSteps(nsteps),
         low |-> r.low, high |-> r.high, table |-> table]

InGrid(s) == s.low >= -MaxScanX /\ s.high <= MaxScanX

ScanIdle(fval) ==
    [fval |-> fval, prev_fval |-> fval, mode |-> "none", par |-> 0, nsteps |-> 0,
     low |-> 0, high |-> 0, table |-> <<>>, result |-> <<>>, pending |-> {},
     out_of_order |-> FALSE]

ScanInit ==
    /\ parameters \in ScanParamSets
    /\ int_of_ext = RebuildIntOfExt(parameters)
    /\ ext_of_int = RebuildExtOfInt(parameters)
    /\ name_map = NamesOf(parameters)
    /\ last_call = Called("new", None)
    /\ name_clash = FALSE
    /\ EngineUnused
    /\ pc = "sc_idle"
    /\ evals = None
    /\ minos = NoQuery
    /\ cross = NoResult
    /\ contour = NoQuery
    /\ cov = NoQuery
    /\ \E fval \in 0..(MaxF + 1) : scan = ScanIdle(fval)

\* The scanner after update_best on the result, which is returned
Updated(s, res) ==
    LET u == UpdateBest(scan.fval, parameters, s.par, res)
    IN  /\ parameters' = u.parameters
        /\ scan' = [ScanIdle(u.fval) EXCEPT !.prev_fval = scan.fval,
                                            !.mode = s.mode, !.par = s.par,
                                            !.nsteps = s.nsteps, !.low = s.low,
                                            !.high = s.high, !.result = res,
                                            !.out_of_order = scan.out_of_order]

\* MnParameterScan::scan_serial (and scan, which calls it)
ScanSerial ==
    /\ pc = "sc_idle"
    /\ \E par \in 0..(Len(parameters) - 1) : \E a \in ScanArgs :
         /\ InGrid(Setup("serial", par, a[1], a[2][1], a[2][2], <<>>))
         /\ \E table \in [1..(ClampSteps(a[1]) + 1) -> FValues] :
              LET s == Setup("serial", par, a[1], a[2][1], a[2][2], table)
              IN  Updated(s, ScanPoints(s))
    /\ pc' = "sc_returned"
    /\ UNCHANGED <<int_of_ext, ext_of_int, name_map, last_call, name_clash, call, eng,
                   num_calls, seed, mg, sx, result, simplex_min, trace, ret, iters,
                   evals, minos, cross, contour, cov>>

\* MnParameterScan::scan_parallel up to the dispatch of the n + 1 points
ScanParallel ==
    /\ pc = "sc_idle"
    /\ \E par \in 0..(Len(parameters) - 1) : \E a \in ScanArgs :
         /\ InGrid(Setup("parallel", par, a[1], a[2][1], a[2][2], <<>>))
         /\ \E table \in [1..(ClampSteps(a[1]) + 1) -> FValues] :
              LET s == Setup("parallel", par, a[1], a[2][1], a[2][2], table)
              IN  scan' = [ScanIdle(scan.fval) EXCEPT
                              !.mode = s.mode, !.par = s.par, !.nsteps = s.nsteps,
                              !.low = s.low, !.high = s.high, !.table = s.table,
                              !.result = [i \in 1..(s.nsteps + 1) |-> NoPoint],
                              !.pending = 0..s.nsteps]
    /\ pc' = "sc_workers"
    /\ UNCHANGED <<paramVars, call, eng, num_calls, seed, mg, sx, result, simplex_min,
                   trace, ret, iters, evals, minos, cross, contour, cov>>

\* A worker evaluates one of the points not yet evaluated
ScanWorker ==
    /\ pc = "sc_workers"
    /\ \E i \in scan.pending :
         scan' = [scan EXCEPT
                     !.result = Collect(@, Len(@) - Cardinality(scan.pending), i,
                                        ScanPoint(scan, i)),
                     !.pending = @ \ {i},
                     !.out_of_order = @ \/ (\E k \in scan.pending : k < i)]
    /\ pc' = pc
    /\ UNCHANGED <<paramVars, call, eng, num_calls, seed, mg, sx, result, simplex_min,
                   trace, ret, iters, evals, minos, cross, contour, cov>>

\* scan_parallel after collect(): update_best, and the result is returned
ScanParallelJoin ==
    /\ pc = "sc_workers"
    /\ scan.pending = {}
    /\ Updated(scan, scan.result)
    /\ pc' = "sc_returned"
    /\ UNCHANGED <<int_of_ext, ext_of_int, name_map, last_call, name_clash, call, eng,
                   num_calls, seed, mg, sx, result, simplex_min, trace, ret, iters,
                   evals, minos, cross, contour, cov>>

\* The caller is done with the Vec a scan returned
ScanResultDropped ==
    /\ pc = "sc_returned"
    /\ scan' = ScanIdle(scan.fval)
    /\ pc' = "sc_idle"
    /\ UNCHANGED <<paramVars, call, eng, num_calls, seed, mg, sx, result, simplex_min,
                   trace, ret, iters, evals, minos, cross, contour, cov>>

ScanNext ==
    \/ ScanSerial
    \/ ScanParallel
    \/ ScanWorker
    \/ ScanParallelJoin
    \/ ScanResultDropped

SpecScan == ScanInit /\ [][ScanNext]_vars

\* ------------------------------------------------------------------------
\* Claims on MnParameterScan
\* ------------------------------------------------------------------------
\* C17: for the same scanner state and arguments the parallel scan returns
\* the sequence of (x, F) points the serial scan returns, in the same
\* order, and leaves the scanner with the same fval and parameters,
\* whatever the order in which the workers evaluate the points.
C17_ParallelEqualsSerial ==
    [][(pc = "sc_workers" /\ pc' = "sc_returned")
         => LET serial == ScanPoints(scan)
                u == UpdateBest(scan.fval, parameters, scan.par, serial)
            IN  /\ scan'.result = serial
                /\ scan'.fval = u.fval
                /\ parameters' = u.parameters]_vars

C17_Witness ==
    /\ pc = "sc_returned"
    /\ scan.mode = "parallel"
    /\ scan.out_of_order
    /\ scan.fval < scan.prev_fval

\* The least function value of a scan
LeastF(res) ==
    CHOOSE f \in {res[k].f : k \in 1..Len(res)} :
        \A k \in 1..Len(res) : f <= res[k].f

\* C18: a scan updates the stored minimum only on improvement.  After a
\* scan of parameter i, fval is the lesser of the previous fval and the
\* least scanned F; when the least scanned F is strictly below the previous
\* fval, parameter i is set to an x of that F, and otherwise fval and every
\* parameter are as before.  No step ever increases fval.
C18_UpdateOnlyOnImprovement ==
    [][/\ scan'.fval <= scan.fval
       /\ (pc # "sc_returned" /\ pc' = "sc_returned")
            => LET res   == scan'.result
                   least == LeastF(res)
               IN  /\ scan'.fval = IF least < scan.fval THEN least ELSE scan.fval
                   /\ IF least < scan.fval
                      THEN \E k \in 1..Len(res) :
                             /\ res[k].f = least
                             /\ parameters' =
                                  [parameters EXCEPT ![scan'.par + 1].value = res[k].x]
                      ELSE parameters' = parameters]_vars

C18_Witness ==
    /\ pc = "sc_returned"
    /\ scan.fval < scan.prev_fval
    /\ scan.fval = LeastF(scan.result)
    /\ parameters[scan.par + 1].value # 0
    /\ \E k \in 1..Len(scan.result) :
         /\ scan.result[k].f = scan.fval
         /\ scan.result[k].x = parameters[scan.par + 1].value

\* ------------------------------------------------------------------------
\* MnUserCovariance  (user_covariance.rs)
\* ------------------------------------------------------------------------
MaxCovN == 3          \* the largest number of rows
MaxCovValue == 2      \* the largest value set
MaxCovSets == 2       \* the number of set calls followed

\* n * (n + 1) / 2
PackedLen(n) == (n * (n + 1)) \div 2

\* MnUserCovariance::new(n)
MnUserCovarianceNew(n) ==
    [api |-> "cov", nrow |-> n, data |-> [k \in 1..PackedLen(n) |-> 0], sets |-> 0]

\* let (r, c) = if row <= col { (row, col) } else { (col, row) }
UpperRow(row, col) == IF row <= col THEN row ELSE col
UpperCol(row, col) == IF row <= col THEN col ELSE row

PackedIndexSharingColumns(r, c) == r + (c * (c - 1)) \div 2

\* r + c * (c + 1) / 2
PackedIndex(r, c) == r + (c * (c + 1)) \div 2

\* MnUserCovariance::get; data is 0-based in the code
Get(m, row, col) == m.data[PackedIndex(UpperRow(row, col), UpperCol(row, col)) + 1]

\* MnUserCovariance::set
Set(m, row, col, val) ==
    [m EXCEPT !.data[PackedIndex(UpperRow(row, col), UpperCol(row, col)) + 1] = val,
              !.sets = @ + 1]

CovInit ==
    /\ parameters = <<>>
    /\ int_of_ext = <<>>
    /\ ext_of_int = <<>>
    /\ name_map = EmptyMap
    /\ last_call = Called("new", None)
    /\ name_clash = FALSE
    /\ EngineUnused
    /\ pc = "cov"
    /\ evals = None
    /\ minos = NoQuery
    /\ cross = NoResult
    /\ contour = NoQuery
    /\ scan = NoQuery
    /\ \E n \in 0..MaxCovN : cov = MnUserCovarianceNew(n)

\* cov.set(row, col, val) for row, col < nrow
CovSet ==
    /\ pc = "cov"
    /\ cov.sets < MaxCovSets
    /\ \E row \in 0..(cov.nrow - 1) : \E col \in 0..(cov.nrow - 1) :
         \E val \in 0..MaxCovValue :
           cov' = Set(cov, row, col, val)
    /\ pc' = pc
    /\ UNCHANGED <<paramVars, call, eng, num_calls, seed, mg, sx, result, simplex_min,
                   trace, ret, iters, evals, minos, cross, contour, scan>>

CovNext == CovSet

SpecCov == CovInit /\ [][CovNext]_vars

\* ------------------------------------------------------------------------
\* C19: an MnUserCovariance for n parameters stores exactly n(n+1)/2
\* values; for all i, j < n the packed index is in range and
\* get(i, j) = get(j, i); set(i, j, v) makes get(i, j) and get(j, i) equal
\* to v and leaves get(k, l) as it was for every other pair {k, l}.
Rows == 0..(cov.nrow - 1)

C19_PackedSymmetricCollisionFree ==
    /\ [](/\ Len(cov.data) * 2 = cov.nrow * (cov.nrow + 1)
          /\ \A i \in Rows : \A j \in Rows :
               /\ PackedIndex(UpperRow(i, j), UpperCol(i, j)) \in 0..(Len(cov.data) - 1)
               /\ Get(cov, i, j) = Get(cov, j, i))
    /\ [][\E i \in Rows : \E j \in Rows : \E v \in 0..MaxCovValue :
            \A k \in Rows : \A l \in Rows :
                Get(cov', k, l) = IF {k, l} = {i, j} THEN v ELSE Get(cov, k, l)]_vars

C19_Witness ==
    /\ cov.api = "cov"
    /\ cov.nrow = MaxCovN
    /\ Get(cov, 0, 1) = 1
    /\ Get(cov, 1, 0) = 1
    /\ Get(cov, 1, 2) = 2
    /\ Get(cov, 0, 0) = 0
    /\ Get(cov, 0, 2) = 0

\* ------------------------------------------------------------------------
\* The two passes of Migrad
\* ------------------------------------------------------------------------

\* The first pass of a Migrad run has ended and its last state has not
\* reached the EDM goal.
FirstPassMissedEdm ==
    /\ pc = "mg_pass_end"
    /\ mg.pass = 1
    /\ ~(mg.last.edm < EdmVal(eng.tolerance, call.up))

\* The step taken starts the second pass: budget 1.3 * maxfcn (truncated),
\* seeded by the last state of the first pass.
SecondPassStarts ==
    /\ pc' = "mg_loop"
    /\ mg'.pass = 2
    /\ mg'.budget = (13 * eng.maxfcn) \div 10
    /\ mg'.last = mg.last

\* The step taken returns the states of the pass that has ended.
PassesEnd == pc' = "mg_outcome" /\ mg' = mg

\* C21 as stated: whenever the first pass ends without EDM < edmval, a
\* second pass with budget 1.3 * maxfcn is run from the last state of the
\* first.
C21_RetryWheneverEdmMissed ==
    [][FirstPassMissedEdm => SecondPassStarts]_vars

\* C21, amended: when the first pass ends without EDM < edmval and at least
\* 10 calls remain of the budget 1.3 * maxfcn, one second pass with that
\* budget is run from the last state of the first pass; with fewer than 10
\* calls remaining the first pass is returned; a second pass is never
\* followed by a third.
C21_RetryOnceWhenCallsRemain ==
    /\ [][FirstPassMissedEdm =>
            IF (13 * eng.maxfcn) \div 10 >= num_calls + 10
            THEN SecondPassStarts ELSE PassesEnd]_vars
    /\ [][(pc = "mg_pass_end" /\ mg.pass = 2) => PassesEnd]_vars
    /\ [](pc \in {"mg_loop", "mg_update", "mg_pass_end", "mg_outcome"} => mg.pass \in {1, 2})

\* A second pass has ended after a first pass that missed the EDM goal.
C21_Witness ==
    /\ pc = "mg_outcome"
    /\ mg.pass = 2
    /\ mg.budget = (13 * eng.maxfcn) \div 10

\* ------------------------------------------------------------------------
\* The history of states of a Migrad run and of MnHesse on its result
\* ------------------------------------------------------------------------
HistoryNext ==
    \/ MnMigradMinimize
    \/ MigradSeed
    \/ MigradLineSearch
    \/ MigradUpdate
    \/ MigradPassEnd
    \/ MigradReturn
    \/ MnHesseCalculate

\* Migrad runs with the states they push recorded
HistoryInit == PublicCall({"migrad", "migrad_grad"}, {0}, {<<None, 1>>}, 0, None)

SpecHistory == HistoryInit /\ [][HistoryNext]_vars

\* C22: every state a Migrad run has recorded, those of the first pass
\* included when a second pass has run, is in states() of the result in the
\* order of production, and MnHesse::calculate appends its state after them.
C22_HistoryIsAppendOnly ==
    (pc \in {"done", "hesse_done"} /\ HasStates(ret)) =>
        ret.states = Produced(0, IF pc = "done" THEN StatesProduced ELSE StatesProduced + 1)

\* ------------------------------------------------------------------------
\* MnHesse::calculate and the flags of the minimum it is given
\* ------------------------------------------------------------------------

\* C23: the minimum MnHesse::calculate returns has reached_call_limit set
\* if its input has, and is_above_max_edm set if its input has, so that an
\* invalid result stays invalid.  (`result` is the minimum the minimizer
\* delivered, `ret` the one MnHesse::calculate made of it.)
C23_HessePreservesFlags ==
    pc = "hesse_done" =>
        /\ result.reached_call_limit => ret.reached_call_limit
        /\ result.is_above_max_edm => ret.is_above_max_edm
        /\ ~IsValid(result) => ~IsValid(ret)

\* C24: a Migrad run whose final state has EDM < edmval returns a valid
\* FunctionMinimum, with neither reached_call_limit nor is_above_max_edm
\* set, whichever pass the convergence was reached in.
C24_ConvergedMigradIsValid ==
    (pc = "done" /\ result.state.edm < EdmVal(eng.tolerance, call.up)) =>
        /\ ~result.reached_call_limit
        /\ ~result.is_above_max_edm
        /\ IsValid(result)

\* ------------------------------------------------------------------------
\* The error matrix MnHesse returns
\* ------------------------------------------------------------------------

\* C25: a result whose final state has an error matrix that is not valid
\* (Hesse failed, or the inversion failed and the diagonal fallback was
\* substituted) has a user state with has_covariance() = false, whether a
\* minimizer built it or MnHesse::calculate returned it.
C25_InvalidErrorMeansNoCovariance ==
    (pc \in {"done", "hesse_done"} /\ ~ret.state.error.valid) => ~HasCovariance(ret)

\* C26: when the calculator left its loops because the call count reached
\* maxcalls, the error matrix of the returned state has reached_call_limit
\* set and is not valid, and is never reported as accurate and valid.
C26_ExhaustedBudgetIsFlagged ==
    (pc = "hesse_done" /\ eng.exhausted) =>
        /\ ret.state.error.reached_call_limit
        /\ ~ret.state.error.valid
        /\ ~(ret.state.error.status = "Accurate" /\ ret.state.error.valid)

\* ------------------------------------------------------------------------
\* The exits of the Simplex loop
\* ------------------------------------------------------------------------

\* The step taken leaves the loop of SimplexBuilder::minimum.
SimplexLoopLeft ==
    /\ pc \in {"sx_loop", "sx_contract", "sx_expand"}
    /\ pc' = "sx_post"

\* C28: the Simplex loop is left only when the call count has reached
\* maxfcn, or when the EDM at the start of the iteration (edm_prev) and the
\* EDM after it are both at or below minedm, or when the contraction point
\* is worse than the worst vertex (the simplex is then left as it was); an
\* EDM at or below minedm after an iteration that began above it does not
\* end the loop.
C28_SimplexLoopExits ==
    [][SimplexLoopLeft =>
          \/ num_calls' >= eng.maxfcn
          \/ /\ sx'.edm_prev <= 500 * eng.tolerance * call.up
             /\ sx'.edm <= 500 * eng.tolerance * call.up
          \/ pc = "sx_contract" /\ sx' = sx]_vars

\* The loop has been left on convergence with calls to spare.
C28_Witness ==
    /\ pc = "sx_post"
    /\ num_calls < eng.maxfcn
    /\ sx.edm <= MinEdm(eng.tolerance, call.up)
    /\ sx.edm_prev <= MinEdm(eng.tolerance, call.up)

\* ------------------------------------------------------------------------
\* MnFcn (src/src/mn_fcn.rs): the counted objective, one statement a step
\* ------------------------------------------------------------------------
MaxFcnCalls == 3        \* evaluations made through one MnFcn

CountedTwice(n) == n + 2

\* self.num_calls.set(self.num_calls.get() + 1)
Counted(n) == n + 1

\* MnFcn::new over one of the parameter sets; `evals` counts the calls of
\* the user function, `trace` holds the argument of the last one.
FcnInit ==
    /\ parameters \in EngineParamSets
    /\ int_of_ext = RebuildIntOfExt(parameters)
    /\ ext_of_int = RebuildExtOfInt(parameters)
    /\ name_map = NamesOf(parameters)
    /\ last_call = Called("new", None)
    /\ name_clash = FALSE
    /\ EngineUnused
    /\ AnalysisIdle
    /\ pc = "fcn_idle"
    /\ evals = 0

\* A caller evaluates through the MnFcn: call(internal) or
\* call_with_transformed_params(external).
FcnCalled ==
    /\ pc = "fcn_idle"
    /\ num_calls < MaxFcnCalls
    /\ \/ \E internal \in InternalVectors(VariableParameters(parameters)) :
            call' = [api |-> "call", arg |-> internal]
       \/ \E external \in InternalVectors(Len(parameters)) :
            call' = [api |-> "call_with_transformed_params", arg |-> external]
    /\ pc' = "fcn_count"
    /\ UNCHANGED <<paramVars, analysisVars, eng, num_calls, seed, mg, sx, result, simplex_min,
                   trace, ret, iters, evals>>

\* The first statement of call and of call_with_transformed_params: the
\* counter is incremented.
MnFcnCount ==
    /\ pc = "fcn_count"
    /\ num_calls' = Counted(num_calls)
    /\ IF call.api = "call"
       THEN eng' = eng /\ pc' = "fcn_transform"
       ELSE eng' = [kind |-> "mn_fcn", external |-> call.arg] /\ pc' = "fcn_value"
    /\ UNCHANGED <<paramVars, analysisVars, call, seed, mg, sx, result, simplex_min, trace, ret,
                   iters, evals>>

\* call: let external = self.trafo.transform(internal)
MnFcnTransform ==
    /\ pc = "fcn_transform"
    /\ eng' = [kind |-> "mn_fcn", external |-> Transform(parameters, call.arg)]
    /\ pc' = "fcn_value"
    /\ UNCHANGED <<paramVars, analysisVars, call, num_calls, seed, mg, sx, result, simplex_min,
                   trace, ret, iters, evals>>

\* self.fcn.value(&external): the user function runs once; it returns a
\* value or panics.
MnFcnValue ==
    /\ pc = "fcn_value"
    /\ evals' = evals + 1
    /\ trace' = <<eng.external>>
    /\ \E returns \in BOOLEAN : pc' = IF returns THEN "fcn_idle" ELSE "fcn_panicked"
    /\ UNCHANGED <<paramVars, analysisVars, call, eng, num_calls, seed, mg, sx, result,
                   simplex_min, ret, iters>>

FcnNext ==
    \/ FcnCalled
    \/ MnFcnCount
    \/ MnFcnTransform
    \/ MnFcnValue

SpecFcn == FcnInit /\ [][FcnNext]_vars

\* C29 as stated: the counter is incremented only after the user function
\* has been called for the evaluation, so at the increment the calls of
\* the user function are one ahead of the counter.
C29_CounterIncrementedAfterUserCall ==
    [][num_calls' # num_calls => (num_calls' = num_calls + 1 /\ evals = num_calls + 1)]_vars

\* C29, amended: every evaluation first increments the counter by exactly
\* one, then (for internal parameters) transforms them to external
\* coordinates, then calls the user function exactly once with the
\* external vector; while the transformation and the user function run the
\* counter already counts the evaluation, and after it counter and calls
\* of the user function agree.
C29_CountThenTransformThenCall ==
    /\ [](pc \in {"fcn_transform", "fcn_value"} => num_calls = evals + 1)
    /\ [](pc \in {"fcn_idle", "fcn_count", "fcn_panicked"} => num_calls = evals)
    /\ [][num_calls' # num_calls => (num_calls' = num_calls + 1 /\ pc = "fcn_count")]_vars
    /\ [][evals' # evals =>
            /\ evals' = evals + 1
            /\ trace' = <<IF call.api = "call"
                          THEN Transform(parameters, call.arg) ELSE call.arg>>]_vars

\* The user function is about to be called a second time, with an external
\* vector that the transformation has made of a shorter internal one.
C29_Witness ==
    /\ pc = "fcn_value"
    /\ call.api = "call"
    /\ evals = 1
    /\ num_calls = 2
    /\ Len(eng.external) > Len(call.arg)

====
